---------------------------- MODULE Spec2Model ----------------------------
(***************************************************************************)
(* A model of the multigrid codes of fas-intro:                            *)
(*   src/py/meshlevel.py      MeshLevel1D (nodes 0..m, m = 2^(k+1))        *)
(*   src/py/1D/meshlevel.py   MeshLevel1D (nodes 0..m+1, m = 2^(j+1)-1)    *)
(*   src/fas/py/cycles.py     FAS V-cycle and F-cycle                      *)
(*   src/py/subsetdecomp.py   constraint decomposition V-cycle             *)
(*   src/py/1D/obstacle.py    obstacle problem driver                      *)
(*                                                                         *)
(* Numbers.  The programs compute in floating point with the factors 0.5   *)
(* and 0.25 only, on small data; every value is a dyadic rational n/2^e    *)
(* and the arithmetic on them is exact.  A number is the pair <<n, e>>,    *)
(* normalised (e = 0 or n odd).                                            *)
(*                                                                         *)
(* Vectors.  A numpy vector of length n is a function with domain 0..n-1,  *)
(* so that indices are those of the source.                                *)
(***************************************************************************)
EXTENDS Integers, Sequences, FiniteSets, TLC

VARIABLES
    \* ---- a call of one method of a MeshLevel1D object
    cls,      \* "py" (src/py/meshlevel.py) or "1D" (src/py/1D/meshlevel.py)
    lev,      \* the level index k (resp. j) of the object
    varg,     \* the vector passed to the method
    uarg,     \* a second vector, on the next coarser level
    ret,      \* the latest call: [op, status, val]
    \* ---- a FAS object (src/fas/py/cycles.py) and one call of vcycle or fcycle
    fas,      \* the constructor's arguments and outcome
    wu,       \* FAS.wu: work units per level
    heap,     \* the numpy vectors allocated, by reference 1, 2, ...
    stack,    \* the frames of vcycle, innermost last
    fc,       \* the frame of fcycle
    top,      \* the caller's call: [call, status, k, u, ell, val]
    log,      \* what has run so far: <<event, level, depth>>
    \* ---- the obstacle driver (src/py/1D/obstacle.py)
    drv,      \* its arguments and the hierarchy it builds
    \* ---- one call of vcycle of src/py/subsetdecomp.py
    hierarchy,  \* hierarchy[j] = [chi, WU], the fields of the mesh levels used
    frames,     \* the frames of vcycle, innermost last
    cd,         \* the caller's call: its arguments and what it got back
    sweeps      \* the projected sweeps run so far: <<level, phase, forward, infeas, phi>>

varsT == <<cls, lev, varg, uarg, ret>>
varsF == <<fas, wu, heap, stack, fc, top, log>>
varsD == <<drv>>
varsC == <<hierarchy, frames, cd, sweeps>>
vars == <<cls, lev, varg, uarg, ret, fas, wu, heap, stack, fc, top, log, drv,
          hierarchy, frames, cd, sweeps>>

\* what a MeshLevel1D method call, the FAS object and the driver leave alone
notT == <<varsF, varsD, varsC>>
notF == <<varsT, varsD, varsC>>
notD == <<varsT, varsF, varsC>>
notC == <<varsT, varsF, varsD>>

---------------------------------------------------------------------------
(* Bounds of the model *)

\* finest level index of a MeshLevel1D object of the transfer-operator checks
MaxLevel == 2

\* most nonzero entries of a vector passed to a method
MaxSupport == 3

\* most nonzero entries of the fine vector of the adjoint relation
AdjSupport == 2

\* finest level index kfine of a FAS object
MaxK == 2

\* most sweeps configured for each of down, up and coarse
MaxSweeps == 2

\* most V-cycles asked of fcycle on the finest level
MaxCycles == 2

\* largest level index given to the obstacle driver as -jcoarse or -jfine
MaxJ == 2

\* finest level index of the hierarchy given to the constraint-decomposition vcycle
MaxCD == 2

\* most sweeps asked of it as down, up or coarse
MaxPGS == 1

\* the defect obstacles given to it have their dip at one of the nodes 0..MaxDip
MaxDip == 2

\* the finest MeshLevel1D index -jfine of a solve
MaxNI == 1

---------------------------------------------------------------------------
(* Exact dyadic arithmetic *)

RECURSIVE DNorm(_, _)
DNorm(n, e) == IF e > 0 /\ n % 2 = 0 THEN DNorm(n \div 2, e - 1) ELSE <<n, e>>

D(n) == <<n, 0>>

DZero == <<0, 0>>

IMax(a, b) == IF a >= b THEN a ELSE b

\* the numerator of a over the denominator 2^e, e >= a[2]
DNum(a, e) == a[1] * 2^(e - a[2])

DAdd(a, b) == LET e == IMax(a[2], b[2]) IN DNorm(DNum(a, e) + DNum(b, e), e)

DNeg(a) == <<0 - a[1], a[2]>>

DSub(a, b) == DAdd(a, DNeg(b))

DMul(a, b) == DNorm(a[1] * b[1], a[2] + b[2])

\* 0.5 * a
DHalf(a) == DNorm(a[1], a[2] + 1)

\* 0.25 * a
DQuarter(a) == DNorm(a[1], a[2] + 2)

DLeq(a, b) == LET e == IMax(a[2], b[2]) IN DNum(a, e) <= DNum(b, e)

DMax(a, b) == IF DLeq(a, b) THEN b ELSE a

---------------------------------------------------------------------------
(* numpy vectors *)

VLen(v) == Cardinality(DOMAIN v)

\* np.zeros(n)
Zeros(n) == [p \in 0..(n - 1) |-> DZero]

\* Python's max(v[lo:hi]) for 0 <= lo < hi <= len(v)
RECURSIVE SliceMax(_, _, _)
SliceMax(v, lo, hi) ==
    IF hi - lo = 1 THEN v[lo] ELSE DMax(v[lo], SliceMax(v, lo + 1, hi))

\* the plain inner product sum_p a[p] * b[p] of two vectors of one length
RECURSIVE InnerFrom(_, _, _)
InnerFrom(a, b, p) ==
    IF p >= VLen(a) THEN DZero ELSE DAdd(DMul(a[p], b[p]), InnerFrom(a, b, p + 1))

Inner(a, b) == InnerFrom(a, b, 0)

\* a pointwise equality of vectors
VAdd(a, b) == [p \in DOMAIN a |-> DAdd(a[p], b[p])]

VSub(a, b) == [p \in DOMAIN a |-> DSub(a[p], b[p])]

---------------------------------------------------------------------------
(* Outcomes of a call *)

Ok(y) == [status |-> "ok", val |-> y]

\* a failed assert: nothing is returned
AssertionError == [status |-> "AssertionError", val |-> <<>>]

\* an index out of range: nothing is returned
IndexError == [status |-> "IndexError", val |-> <<>>]

---------------------------------------------------------------------------
(* src/py/meshlevel.py: MeshLevel1D(k), nodes 0..m *)

m_py(k) == 2^(k + 1)

\* defined for k > 0 only (None on the coarsest level)
mcoarser_py(k) == 2^k

zeros_py(k) == Zeros(m_py(k) + 1)

\* The value returned is the radicand 0.5 u[0]^2 + sum u[1:-1]^2 + 0.5 u[-1]^2
\* (np.sqrt and the factor h are strictly increasing maps of it).  There is
\* no check of len(u).
l2norm(k, u) ==
    LET n == VLen(u)
        mid == [p \in 0..(n - 3) |-> u[p + 1]]
    IN  IF n = 0 THEN IndexError
        ELSE Ok(DAdd(DAdd(DHalf(DMul(u[0], u[0])), Inner(mid, mid)),
                     DHalf(DMul(u[n - 1], u[n - 1]))))

prolongBadFirst(k, v) ==
    IF ~(k > 0) THEN AssertionError
    ELSE IF VLen(v) # mcoarser_py(k) + 1 THEN AssertionError
    ELSE LET m == m_py(k)
             mc == mcoarser_py(k)
         IN  Ok([p \in 0..m |->
                   IF p = 0 \/ p = m THEN DZero
                   ELSE IF p = 1 THEN v[1]
                   ELSE IF p = m - 1 THEN DHalf(v[mc - 1])
                   ELSE IF p % 2 = 0 THEN v[p \div 2]
                   ELSE DHalf(DAdd(v[(p - 1) \div 2], v[(p + 1) \div 2]))])

prolong(k, v) ==
    IF ~(k > 0) THEN AssertionError
    ELSE IF VLen(v) # mcoarser_py(k) + 1 THEN AssertionError
    ELSE LET m == m_py(k)
             mc == mcoarser_py(k)
         IN  Ok([p \in 0..m |->
                   IF p = 0 \/ p = m THEN DZero              \* y = self.zeros()
                   ELSE IF p = 1 THEN DHalf(v[1])            \* y[1]
                   ELSE IF p = m - 1 THEN DHalf(v[mc - 1])   \* y[m-1]
                   ELSE IF p % 2 = 0 THEN v[p \div 2]        \* y[2q], y[m-2]
                   ELSE DHalf(DAdd(v[(p - 1) \div 2], v[(p + 1) \div 2]))])

CRBadLen(k, v) ==
    IF ~(k > 0) THEN AssertionError
    ELSE IF VLen(v) < m_py(k) + 1 THEN AssertionError
    ELSE Ok([q \in 0..mcoarser_py(k) |->
               IF q = 0 \/ q = mcoarser_py(k) THEN DZero
               ELSE DAdd(DAdd(DHalf(v[2*q - 1]), v[2*q]), DHalf(v[2*q + 1]))])

CR(k, v) ==
    IF ~(k > 0) THEN AssertionError
    ELSE IF VLen(v) # m_py(k) + 1 THEN AssertionError
    ELSE Ok([q \in 0..mcoarser_py(k) |->
               IF q = 0 \/ q = mcoarser_py(k) THEN DZero
               ELSE DAdd(DAdd(DHalf(v[2*q - 1]), v[2*q]), DHalf(v[2*q + 1]))])

\* a full weighting that took the weights 1/2, 1, 1/2 of CR
VR0CanonicalWeights(k, v) ==
    IF ~(k > 0) THEN AssertionError
    ELSE IF VLen(v) # m_py(k) + 1 THEN AssertionError
    ELSE Ok([q \in 0..mcoarser_py(k) |->
               IF q = 0 \/ q = mcoarser_py(k) THEN DZero
               ELSE DAdd(DAdd(DHalf(v[2*q - 1]), v[2*q]), DHalf(v[2*q + 1]))])

VR0(k, v) ==
    IF ~(k > 0) THEN AssertionError
    ELSE IF VLen(v) # m_py(k) + 1 THEN AssertionError
    ELSE Ok([q \in 0..mcoarser_py(k) |->
               IF q = 0 \/ q = mcoarser_py(k) THEN DZero
               ELSE DAdd(DQuarter(DAdd(v[2*q - 1], v[2*q + 1])), DHalf(v[2*q]))])

\* The boundary weights 2/3 and 1/3 are not dyadic: the boundary entries are
\* kept as three times their value, 3 y[0] = 2 v[0] + v[1] and
\* 3 y[-1] = v[-2] + 2 v[-1]; the interior entries are the values themselves.
\* The length is asserted before the level.
VR(k, v) ==
    IF VLen(v) # m_py(k) + 1 THEN AssertionError
    ELSE IF ~(k > 0) THEN AssertionError
    ELSE LET m == m_py(k)
             mc == mcoarser_py(k)
         IN  Ok([q \in 0..mc |->
                   IF q = 0 THEN DAdd(DAdd(v[0], v[0]), v[1])
                   ELSE IF q = mc THEN DAdd(v[m - 1], DAdd(v[m], v[m]))
                   ELSE DAdd(DQuarter(DAdd(v[2*q - 1], v[2*q + 1])), DHalf(v[2*q]))])

MRShortSlice(k, v) ==
    IF ~(k > 0) THEN AssertionError
    ELSE IF VLen(v) # m_py(k) + 1 THEN AssertionError
    ELSE LET m == m_py(k)
             mc == mcoarser_py(k)
         IN  Ok([q \in 0..mc |->
                   IF q = 0 THEN SliceMax(v, 0, 2)
                   ELSE IF q = mc THEN SliceMax(v, m - 1, m + 1)
                   ELSE SliceMax(v, 2*q - 1, 2*q + 1)])

MR(k, v) ==
    IF ~(k > 0) THEN AssertionError
    ELSE IF VLen(v) # m_py(k) + 1 THEN AssertionError
    ELSE LET m == m_py(k)
             mc == mcoarser_py(k)
         IN  Ok([q \in 0..mc |->
                   IF q = 0 THEN SliceMax(v, 0, 2)                 \* max(v[0:2])
                   ELSE IF q = mc THEN SliceMax(v, m - 1, m + 1)   \* max(v[-2:])
                   ELSE SliceMax(v, 2*q - 1, 2*q + 2)])

---------------------------------------------------------------------------
(* src/py/1D/meshlevel.py: MeshLevel1D(j), nodes 0..m+1 *)

m_1D(j) == 2^(j + 1) - 1

\* defined for j > 0 only (None on the coarsest level)
mcoarser_1D(j) == 2^j - 1

zeros_1D(j) == Zeros(m_1D(j) + 2)

\* TRUE when the assert of checklen passes
checklen(j, v, coarser) ==
    LET goodlen == IF coarser THEN mcoarser_1D(j) + 2 ELSE m_1D(j) + 2
    IN  VLen(v) = goodlen

\* as l2norm of src/py/meshlevel.py, after checklen(u)
l2norm1D(j, u) ==
    IF ~checklen(j, u, FALSE) THEN AssertionError
    ELSE LET n == VLen(u)
             mid == [p \in 0..(n - 3) |-> u[p + 1]]
         IN  Ok(DAdd(DAdd(DHalf(DMul(u[0], u[0])), Inner(mid, mid)),
                     DHalf(DMul(u[n - 1], u[n - 1]))))

cP(j, v) ==
    IF ~(j > 0) THEN AssertionError
    ELSE IF ~checklen(j, v, TRUE) THEN AssertionError
    ELSE LET m == m_1D(j)
             n == VLen(v)
         IN  Ok([p \in 0..(m + 1) |->
                   IF p = 0 \/ p = m + 1 THEN DZero           \* y = self.zeros()
                   ELSE IF p = 1 THEN DHalf(v[1])             \* y[1]
                   ELSE IF p = m THEN DHalf(v[n - 2])         \* y[-2]
                   ELSE IF p % 2 = 0 THEN v[p \div 2]         \* y[2q], y[-3]
                   ELSE DHalf(DAdd(v[(p - 1) \div 2], v[(p + 1) \div 2]))])

cR(j, ell) ==
    IF ~(j > 0) THEN AssertionError
    ELSE IF ~checklen(j, ell, FALSE) THEN AssertionError
    ELSE Ok([q \in 0..(mcoarser_1D(j) + 1) |->
               IF q = 0 \/ q = mcoarser_1D(j) + 1 THEN DZero
               ELSE DAdd(DAdd(DHalf(ell[2*q - 1]), ell[2*q]), DHalf(ell[2*q + 1]))])

injectP(j, ell) ==
    IF ~(j > 0) THEN AssertionError
    ELSE IF ~checklen(j, ell, TRUE) THEN AssertionError
    ELSE Ok([p \in 0..(m_1D(j) + 1) |->
               IF p % 2 = 0 /\ p >= 2 /\ p <= 2 * mcoarser_1D(j)
               THEN ell[p \div 2] ELSE DZero])

fwP(j, ell) ==
    IF ~(j > 0) THEN AssertionError
    ELSE IF ~checklen(j, ell, TRUE) THEN AssertionError
    ELSE LET m == m_1D(j)
             n == VLen(ell)
         IN  Ok([p \in 0..(m + 1) |->
                   IF p = 0 \/ p = m + 1 THEN DZero
                   ELSE IF p = 1 THEN DQuarter(ell[1])
                   ELSE IF p = m THEN DQuarter(ell[n - 2])
                   ELSE IF p % 2 = 0 THEN DHalf(ell[p \div 2])
                   ELSE DQuarter(DAdd(ell[(p - 1) \div 2], ell[(p + 1) \div 2]))])

\* a restriction that leaves out the fine value to the right of each coarse node
mRShortSlice(j, v) ==
    IF ~(j > 0) THEN AssertionError
    ELSE IF ~checklen(j, v, FALSE) THEN AssertionError
    ELSE Ok([q \in 0..(mcoarser_1D(j) + 1) |->
               IF q = 0 \/ q = mcoarser_1D(j) + 1 THEN DZero
               ELSE SliceMax(v, 2*q - 1, 2*q + 1)])

mR(j, v) ==
    IF ~(j > 0) THEN AssertionError
    ELSE IF ~checklen(j, v, FALSE) THEN AssertionError
    ELSE Ok([q \in 0..(mcoarser_1D(j) + 1) |->
               IF q = 0 \/ q = mcoarser_1D(j) + 1 THEN DZero   \* y = np.zeros(..)
               ELSE SliceMax(v, 2*q - 1, 2*q + 2)])

---------------------------------------------------------------------------
(* Calls of the methods of a MeshLevel1D object.  The arguments are drawn  *)
(* from bounded sets in the initial state; each action is one call.        *)

Levels == 0..MaxLevel

\* nonzero entries of the vectors passed
NonZero == {D(-1), D(1)}

\* node counts of the levels: both classes have 2^(k+1) + 1 nodes on level k
Nodes(k) == 2^(k + 1) + 1

\* the vectors of length n with at most s nonzero entries
SparseVectors(n, s) ==
    LET supports == {T \in SUBSET (0..(n - 1)) : Cardinality(T) <= s}
        choices == UNION {[T -> NonZero] : T \in supports}
    IN  {[p \in 0..(n - 1) |-> IF p \in DOMAIN f THEN f[p] ELSE DZero] : f \in choices}

\* the unit vectors of length n scaled by a nonzero entry, and the constant vectors
UnitVectors(n) ==
    {[p \in 0..(n - 1) |-> IF p = q THEN x ELSE DZero] : q \in 0..(n - 1), x \in NonZero}
    \cup {[p \in 0..(n - 1) |-> x] : x \in NonZero}

\* lengths of the arguments on level k: the node counts of level k and of
\* level k-1, each also one too short and one too long
ArgLens(k) == {Nodes(k) + d : d \in {-1, 0, 1}} \cup {Nodes(k - 1) + d : d \in {-1, 0, 1}}

NoCall == [op |-> "none", status |-> "none", val |-> <<>>]

Returned(op, r) == [op |-> op, status |-> r.status, val |-> r.val]

\* no FAS object
IdleF ==
    /\ fas = [status |-> "idle"]
    /\ wu = <<>>
    /\ heap = <<>>
    /\ stack = <<>>
    /\ fc = [pc |-> "idle"]
    /\ top = [call |-> "idle", status |-> "idle"]
    /\ log = <<>>

\* no driver
IdleD == drv = [pc |-> "idle"]

\* no constraint-decomposition cycle
IdleC ==
    /\ hierarchy = <<>>
    /\ frames = <<>>
    /\ cd = [status |-> "idle"]
    /\ sweeps = <<>>

\* any level, one argument of a right or wrong length
InitT ==
    /\ IdleF
    /\ IdleD
    /\ IdleC
    /\ cls \in {"py", "1D"}
    /\ lev \in Levels
    /\ \E n \in ArgLens(lev) : varg \in SparseVectors(n, MaxSupport)
    /\ uarg = <<>>
    /\ ret = NoCall

\* a level k > 0, v on level k and u on level k-1
InitAdj ==
    /\ IdleF
    /\ IdleD
    /\ IdleC
    /\ cls \in {"py", "1D"}
    /\ lev \in Levels \ {0}
    /\ varg \in SparseVectors(Nodes(lev), AdjSupport)
    /\ uarg \in UnitVectors(Nodes(lev - 1))
    /\ ret = NoCall

\* one call of method op of class c, with outcome r
Call(c, op, r) ==
    /\ cls = c
    /\ ret = NoCall
    /\ ret' = Returned(op, r)
    /\ UNCHANGED <<cls, lev, varg, uarg>>
    /\ UNCHANGED notT

Call_l2norm == Call("py", "l2norm", l2norm(lev, varg))

Call_prolong == Call("py", "prolong", prolong(lev, varg))

Call_CR == Call("py", "CR", CR(lev, varg))

Call_VR0 == Call("py", "VR0", VR0(lev, varg))

Call_VR == Call("py", "VR", VR(lev, varg))

Call_MR == Call("py", "MR", MR(lev, varg))

Call_l2norm1D == Call("1D", "l2norm", l2norm1D(lev, varg))

Call_cP == Call("1D", "cP", cP(lev, varg))

Call_cR == Call("1D", "cR", cR(lev, varg))

Call_injectP == Call("1D", "injectP", injectP(lev, varg))

Call_fwP == Call("1D", "fwP", fwP(lev, varg))

Call_mR == Call("1D", "mR", mR(lev, varg))

\* the prolongation of the coarse vector u, for the adjoint relation
Call_prolong_u == Call("py", "prolong(u)", prolong(lev, uarg))

Call_cP_u == Call("1D", "cP(u)", cP(lev, uarg))

NextT ==
    \/ Call_l2norm
    \/ Call_prolong
    \/ Call_CR
    \/ Call_VR0
    \/ Call_VR
    \/ Call_MR
    \/ Call_l2norm1D
    \/ Call_cP
    \/ Call_cR
    \/ Call_injectP
    \/ Call_fwP
    \/ Call_mR

NextAdj ==
    \/ Call_CR
    \/ Call_prolong_u
    \/ Call_cR
    \/ Call_cP_u

SpecT == InitT /\ [][NextT]_vars

SpecAdj == InitAdj /\ [][NextAdj]_vars

---------------------------------------------------------------------------
(* Properties of the transfer operators *)

CallOk(op) == ret.op = op /\ ret.status = "ok"

\* C1: adjoint property.  On every level k > 0, for v on level k and u on
\* level k-1 (boundary entries of either may be nonzero), the plain inner
\* product of CR(v) with u equals that of v with prolong(u); the same for the
\* pair cR, cP.  Every one of these calls returns a vector.
C1_Adjoint ==
    /\ ret.op # "none" => ret.status = "ok"
    /\ CallOk("CR") => Inner(ret.val, uarg) = Inner(varg, prolong(lev, uarg).val)
    /\ CallOk("prolong(u)") => Inner(CR(lev, varg).val, uarg) = Inner(varg, ret.val)
    /\ CallOk("cR") => Inner(ret.val, uarg) = Inner(varg, cP(lev, uarg).val)
    /\ CallOk("cP(u)") => Inner(cR(lev, varg).val, uarg) = Inner(varg, ret.val)

\* C1 witness: on the finest level, CR has returned for a v and a u with
\* nonzero boundary entries, and the inner product is not zero.
C1_Witness ==
    /\ CallOk("CR")
    /\ lev = MaxLevel
    /\ varg[0] # DZero
    /\ uarg[0] # DZero
    /\ Inner(ret.val, uarg) # DZero

\* the fine indices 2q-1, 2q, 2q+1 that exist
FineOf(q) == {p \in DOMAIN varg : p \in {2*q - 1, 2*q, 2*q + 1}}

\* x is the maximum of the passed vector over the index set S
IsMaxOver(x, S) ==
    /\ \E p \in S : varg[p] = x
    /\ \A p \in S : DLeq(varg[p], x)

\* C2 as claimed: MR(v)[q] and mR(v)[q] are the maximum of the fine values
\* that map to q, at every coarse index q, the two boundary nodes included.
C2_MaxAtEveryIndex ==
    (CallOk("MR") \/ CallOk("mR")) =>
        \A q \in DOMAIN ret.val : IsMaxOver(ret.val[q], FineOf(q))

\* C2 as amended: MR(v)[q] is that maximum at every coarse index; mR(v)[q]
\* is that maximum at every interior coarse index q = 1..mcoarser, and the
\* two boundary entries of mR(v) are 0 whatever v is.
C2_MaxAmended ==
    /\ CallOk("MR") =>
           /\ DOMAIN ret.val = 0..mcoarser_py(lev)
           /\ \A q \in DOMAIN ret.val : IsMaxOver(ret.val[q], FineOf(q))
    /\ CallOk("mR") =>
           /\ DOMAIN ret.val = 0..(mcoarser_1D(lev) + 1)
           /\ \A q \in 1..mcoarser_1D(lev) : IsMaxOver(ret.val[q], FineOf(q))
           /\ ret.val[0] = DZero
           /\ ret.val[mcoarser_1D(lev) + 1] = DZero

\* C2 witness: mR has returned on the finest level for a v whose first
\* entry is positive: the boundary entry returned is 0, below v[0], while the
\* first interior entry is the maximum 1 of values that differ.
C2_Witness ==
    /\ CallOk("mR")
    /\ lev = MaxLevel
    /\ varg[0] = D(1)
    /\ varg[1] = D(-1)
    /\ ret.val[0] = DZero
    /\ ret.val[1] = D(1)

\* operators that take a vector of the next coarser level
Prolongations == {"prolong", "cP", "injectP", "fwP"}

\* operators that take a vector of this level
Restrictions == {"CR", "cR", "VR0", "VR", "MR", "mR"}

\* C7: on level 0 every transfer operator fails with an assertion error; on
\* a level k > 0 it fails with an assertion error when the length of its
\* argument is not the node count of the source level (level k-1 for the
\* prolongations, level k for the restrictions).  Nothing is returned then.
C7_Rejects ==
    /\ (ret.op \in Prolongations /\ (lev = 0 \/ VLen(varg) # Nodes(lev - 1)))
           => (ret.status = "AssertionError" /\ ret.val = <<>>)
    /\ (ret.op \in Restrictions /\ (lev = 0 \/ VLen(varg) # Nodes(lev)))
           => (ret.status = "AssertionError" /\ ret.val = <<>>)

\* C7 witness: VR, which asserts the length first, was called on level 0
\* with a vector of the right length, and failed.
C7_Witness ==
    /\ ret.op = "VR"
    /\ lev = 0
    /\ VLen(varg) = Nodes(0)
    /\ ret.status = "AssertionError"

\* C8 as claimed: l2norm of either class fails with an assertion error when
\* the length of its argument is not the node count of the level.
C8_L2normChecksLength ==
    (ret.op = "l2norm" /\ VLen(varg) # Nodes(lev)) => ret.status = "AssertionError"

\* the interior nodes 1..mcoarser-1 of level k-1 in src/py/meshlevel.py
InteriorCoarse(k) == 1..(mcoarser_py(k) - 1)

\* C13 as claimed: on every level k > 0, for every fine vector v and every
\* interior coarse node q, VR0(v)[q] and VR(v)[q] equal CR(v)[q].
C13_SameAsCR ==
    (CallOk("VR0") \/ CallOk("VR")) =>
        \A q \in InteriorCoarse(lev) : ret.val[q] = CR(lev, varg).val[q]

\* C13 as amended: on every level k > 0, for every fine vector v and every
\* interior coarse node q, VR0(v)[q] = VR(v)[q] = CR(v)[q] / 2: full
\* weighting has the weights 1/4, 1/2, 1/4, which are those of canonical
\* restriction, 1/2, 1, 1/2, halved.
C13_HalfOfCR ==
    /\ (CallOk("VR0") \/ CallOk("VR")) =>
          \A q \in InteriorCoarse(lev) :
             /\ ret.val[q] = DHalf(CR(lev, varg).val[q])
             /\ ret.val[q] = VR0(lev, varg).val[q]
             /\ ret.val[q] = VR(lev, varg).val[q]
    /\ CallOk("CR") =>
          \A q \in InteriorCoarse(lev) : DHalf(ret.val[q]) = VR0(lev, varg).val[q]

\* C13 witness: VR0 on the finest level returned a nonzero interior value,
\* half of that of CR.
C13_Witness ==
    /\ CallOk("VR0")
    /\ lev = MaxLevel
    /\ \E q \in InteriorCoarse(lev) :
          /\ ret.val[q] # DZero
          /\ ret.val[q] # CR(lev, varg).val[q]
          /\ ret.val[q] = DHalf(CR(lev, varg).val[q])

---------------------------------------------------------------------------
(* src/fas/py/cycles.py: class FAS                                         *)
(*                                                                         *)
(* The mesh class and the problem class that FAS uses (meshes[k].P, .Rfw,  *)
(* .CR, .zeros, .m, .h; prob.F, prob.ngspoint, prob.mms) are not among the *)
(* sources.  The mesh has nodes 0..m with m = 2^(k+1), as the ranges of    *)
(* ngssweep and Phat require; its transfer operators are linear            *)
(* interpolation, full weighting with zero boundary values and canonical   *)
(* restriction.  The problem is one whose equation at node p couples the   *)
(* nodes p-1 and p, F(h, w)[p] = (w[p] - w[p-1]) / h, so that F(h, 0) = 0, *)
(* a sweep depends on its direction, and the pointwise relaxation solves   *)
(* the equation of node p exactly (and leaves w[p] as it is when the       *)
(* equation already holds).                                                *)

\* no MeshLevel1D method call
IdleT ==
    /\ cls = "idle"
    /\ lev = 0
    /\ varg = <<>>
    /\ uarg = <<>>
    /\ ret = NoCall

\* meshes[k].m
fas_m(k) == 2^(k + 1)

\* meshes[k].h = 1/m
fas_h(k) == <<1, k + 1>>

\* meshes[k].zeros()
fas_zeros(k) == Zeros(fas_m(k) + 1)

\* meshes[k].P(w): w on level k-1, the result on level k
P(k, w) == prolong(k, w).val

\* meshes[k].Rfw(v): v on level k, the result on level k-1
Rfw(k, v) == VR0(k, v).val

\* meshes[k].CR(v): v on level k, the result on level k-1
fas_CR(k, v) == CR(k, v).val

\* a / h for the mesh width h = 2^-e
DOverH(a, h) == DMul(a, D(2^(h[2])))

\* prob.F(h, w): zero at the two boundary nodes
F(h, w) ==
    LET last == VLen(w) - 1
    IN  [p \in DOMAIN w |->
           IF p = 0 \/ p = last THEN DZero
           ELSE DOverH(DSub(w[p], w[p - 1]), h)]

\* prob.ngspoint(h, w, ell, p, niters): w after the update of node p in
\* place, which solves F(h, w)[p] = ell[p] for w[p]
ngspoint(h, w, ell, p) ==
    [w EXCEPT ![p] = DAdd(DMul(h, ell[p]), w[p - 1])]

\* prob.mms(x)[1]: the source g(x) = 1 at every node
mms_g(k) == [p \in 0..fas_m(k) |-> D(1)]

\* FAS.rhs(k)
rhs(k, mms) ==
    IF mms
    THEN [p \in 0..fas_m(k) |->
            IF p = 0 \/ p = fas_m(k) THEN DZero ELSE DMul(mms_g(k)[p], fas_h(k))]
    ELSE fas_zeros(k)

\* the interior nodes in the order of a sweep
SweepIndices(k, forward) ==
    [i \in 1..(fas_m(k) - 1) |-> IF forward THEN i ELSE fas_m(k) - i]

\* w after ngspoint at the nodes idx[i], idx[i+1], ... in this order
RECURSIVE PointsFrom(_, _, _, _, _)
PointsFrom(h, w, ell, idx, i) ==
    IF i > Len(idx) THEN w
    ELSE PointsFrom(h, ngspoint(h, w, ell, idx[i]), ell, idx, i + 1)

\* FAS.ngssweep(k, w, ell, forward): w after one sweep in place
ngssweep(k, w, ell, forward) ==
    PointsFrom(fas_h(k), w, ell, SweepIndices(k, forward), 1)

\* every interior node 1, 2, ..., m-1 in increasing order
EveryIndex(k) == [i \in 1..(fas_m(k) - 1) |-> i]

\* the odd nodes 1, 3, ..., m-1 in increasing order
OddIndices(k) == [i \in 1..(fas_m(k) \div 2) |-> 2*i - 1]

\* FAS.Phat(k, w, ell): the new vector returned
Phat(k, w, ell) == PointsFrom(fas_h(k), P(k, w), ell, OddIndices(k), 1)

\* the sum of wu[kfine - k] / 2.0**k for k = from, ..., kfine
RECURSIVE wusum(_, _, _)
wusum(w, kfine, k) ==
    IF k > kfine THEN DZero
    ELSE DAdd(DNorm(w[kfine - k][1], w[kfine - k][2] + k), wusum(w, kfine, k + 1))

RECURSIVE wusumSameIndex(_, _, _)
wusumSameIndex(w, kfine, k) ==
    IF k > kfine THEN DZero
    ELSE DAdd(DNorm(w[k][1], w[k][2] + k), wusumSameIndex(w, kfine, k + 1))

wutotalSameIndex(w, kfine) == wusumSameIndex(w, kfine, 0)

\* FAS.wutotal()
wutotal(w, kfine) == wusum(w, kfine, 0)

---------------------------------------------------------------------------
(* The state of a FAS object and of one call *)

\* a frame of vcycle(k, u, ell); u, ell, Ru, ucoarse, coarseell are
\* references, du is a value; ell0, Ru0, uc0 remember the vectors behind ell
\* at entry and behind Ru and ucoarse when the recursive call was made
Frame(k, u, ell, hp) ==
    [k |-> k, u |-> u, ell |-> ell, pc |-> "enter", q |-> 0,
     Ru |-> 0, ucoarse |-> 0, coarseell |-> 0, du |-> <<>>,
     ell0 |-> hp[ell], Ru0 |-> <<>>, uc0 |-> <<>>]

\* w and points remember the vector that was prolonged last and the nodes
\* at which Phat then called ngspoint, in order
NoFcycle == [pc |-> "none", k |-> 0, u |-> 0, ellg |-> 0, q |-> 0,
             s |-> -1, i |-> 0, Z |-> 0, cycles |-> 0, ep |-> FALSE,
             w |-> 0, points |-> <<>>]

\* u0 and ell0 remember the vectors the caller passed
NoTop == [call |-> "none", status |-> "none", k |-> 0, u |-> 0, ell |-> 0, val |-> 0,
          u0 |-> <<>>, ell0 |-> <<>>]

\* vectors a caller passes on level k: zero, all ones, a spike at node 1
InputVectors(k) ==
    { fas_zeros(k),
      [p \in 0..fas_m(k) |-> D(1)],
      [p \in 0..fas_m(k) |-> IF p = 1 THEN D(1) ELSE DZero] }

\* the arguments of FAS(meshes, prob, kcoarse, kfine, mms, coarse, down, up)
InitF ==
    /\ IdleT
    /\ IdleD
    /\ IdleC
    /\ \E kc \in -1..MaxK, kf \in 0..MaxK, c \in 0..MaxSweeps,
          d \in 0..MaxSweeps, up \in 0..MaxSweeps, mms \in BOOLEAN :
          fas = [status |-> "args", kcoarse |-> kc, kfine |-> kf,
                 coarse |-> c, down |-> d, up |-> up, mms |-> mms]
    /\ wu = <<>>
    /\ heap = <<>>
    /\ stack = <<>>
    /\ fc = NoFcycle
    /\ top = NoTop
    /\ log = <<>>

Event(e, k) == <<e, k, Len(stack)>>

\* FAS.__init__: the two asserts, then the fields; wu = np.zeros(kfine+1)
FAS_init ==
    /\ fas.status = "args"
    /\ IF fas.kcoarse >= 0 /\ fas.kcoarse < fas.kfine
       THEN /\ fas' = [fas EXCEPT !.status = "built"]
            /\ wu' = [k \in 0..fas.kfine |-> DZero]
       ELSE /\ fas' = [fas EXCEPT !.status = "AssertionError"]
            /\ wu' = wu
    /\ UNCHANGED <<heap, stack, fc, top, log>>
    /\ UNCHANGED notF

\* the caller runs vcycle(k, u, ell) on a level 0 <= k <= kfine
CallVcycle ==
    /\ fas.status = "built"
    /\ top.call = "none"
    /\ \E k \in 0..fas.kfine :
       \E u \in InputVectors(k), ell \in InputVectors(k) :
          /\ heap' = <<u, ell>>
          /\ stack' = <<Frame(k, 1, 2, heap')>>
          /\ top' = [call |-> "vcycle", status |-> "running", k |-> k,
                     u |-> 1, ell |-> 2, val |-> 0, u0 |-> u, ell0 |-> ell]
          /\ log' = Append(log, Event("vcycle", k))
    /\ UNCHANGED <<fas, wu, fc>>
    /\ UNCHANGED notF

Running == top.status = "running" /\ stack # <<>>

Cur == stack[Len(stack)]

SetCur(f) == [stack EXCEPT ![Len(stack)] = f]

V_EnterBadTest ==
    /\ Running
    /\ Cur.pc = "enter"
    /\ IF Cur.k = 0
       THEN /\ stack' = SetCur([Cur EXCEPT !.pc = "coarse", !.q = 0])
            /\ log' = Append(log, Event("coarsesolve", Cur.k))
            /\ top' = top
       ELSE IF Cur.k > fas.kcoarse
       THEN /\ stack' = SetCur([Cur EXCEPT !.pc = "down", !.q = 0])
            /\ UNCHANGED <<log, top>>
       ELSE /\ stack' = <<>>
            /\ top' = [top EXCEPT !.status = "AssertionError"]
            /\ log' = log
    /\ UNCHANGED <<fas, wu, heap, fc>>
    /\ UNCHANGED notF

\* a vcycle that takes the level above kcoarse for the coarsest
V_EnterOneAbove ==
    /\ Running
    /\ Cur.pc = "enter"
    /\ IF Cur.k = fas.kcoarse + 1
       THEN /\ stack' = SetCur([Cur EXCEPT !.pc = "coarse", !.q = 0])
            /\ log' = Append(log, Event("coarsesolve", Cur.k))
            /\ top' = top
       ELSE IF Cur.k > fas.kcoarse
       THEN /\ stack' = SetCur([Cur EXCEPT !.pc = "down", !.q = 0])
            /\ UNCHANGED <<log, top>>
       ELSE /\ stack' = <<>>
            /\ top' = [top EXCEPT !.status = "AssertionError"]
            /\ log' = log
    /\ UNCHANGED <<fas, wu, heap, fc>>
    /\ UNCHANGED notF

\* vcycle, lines 98-101: the coarsest level, a finer level, or a failed assert
V_Enter ==
    /\ Running
    /\ Cur.pc = "enter"
    /\ IF Cur.k = fas.kcoarse
       THEN /\ stack' = SetCur([Cur EXCEPT !.pc = "coarse", !.q = 0])
            /\ log' = Append(log, Event("coarsesolve", Cur.k))
            /\ top' = top
       ELSE IF Cur.k > fas.kcoarse
       THEN /\ stack' = SetCur([Cur EXCEPT !.pc = "down", !.q = 0])
            /\ UNCHANGED <<log, top>>
       ELSE /\ stack' = <<>>
            /\ top' = [top EXCEPT !.status = "AssertionError"]
            /\ log' = log
    /\ UNCHANGED <<fas, wu, heap, fc>>
    /\ UNCHANGED notF

\* one sweep in place on the vector behind reference u
SweepInPlace(k, u, ell, forward) ==
    /\ heap' = [heap EXCEPT ![u] = ngssweep(k, heap[u], heap[ell], forward)]
    /\ log' = Append(log, Event(IF forward THEN "sweep+" ELSE "sweep-", k))

\* coarsesolve, lines 92-93: one sweep of the loop
V_CoarseSweep ==
    /\ Running
    /\ Cur.pc = "coarse"
    /\ Cur.q < fas.coarse
    /\ SweepInPlace(fas.kcoarse, Cur.u, Cur.ell, TRUE)
    /\ stack' = SetCur([Cur EXCEPT !.q = @ + 1])
    /\ UNCHANGED <<fas, wu, fc, top>>
    /\ UNCHANGED notF

\* coarsesolve, line 94, and the return of vcycle
V_CoarseDone ==
    /\ Running
    /\ Cur.pc = "coarse"
    /\ Cur.q >= fas.coarse
    /\ wu' = [wu EXCEPT ![fas.kcoarse] = DAdd(@, D(fas.coarse))]
    /\ stack' = SetCur([Cur EXCEPT !.pc = "ret"])
    /\ UNCHANGED <<fas, heap, fc, top, log>>
    /\ UNCHANGED notF

\* vcycle, lines 103-104: one sweep of the loop
V_DownSweep ==
    /\ Running
    /\ Cur.pc = "down"
    /\ Cur.q < fas.down
    /\ SweepInPlace(Cur.k, Cur.u, Cur.ell, TRUE)
    /\ stack' = SetCur([Cur EXCEPT !.q = @ + 1])
    /\ UNCHANGED <<fas, wu, fc, top>>
    /\ UNCHANGED notF

\* vcycle, line 105
V_DownDone ==
    /\ Running
    /\ Cur.pc = "down"
    /\ Cur.q >= fas.down
    /\ wu' = [wu EXCEPT ![Cur.k] = DAdd(@, D(fas.down))]
    /\ stack' = SetCur([Cur EXCEPT !.pc = "restrict"])
    /\ UNCHANGED <<fas, heap, fc, top, log>>
    /\ UNCHANGED notF

\* the vectors vcycle allocates before it recurses: Ru, coarseell, ucoarse;
\* without the copy, ucoarse is the vector Ru itself
RestrictNoCopy(hp, f) ==
    LET rfine == VSub(hp[f.ell], F(fas_h(f.k), hp[f.u]))
        Ru == Rfw(f.k, hp[f.u])
        coarseell == VAdd(fas_CR(f.k, rfine), F(fas_h(f.k - 1), Ru))
        n == Len(hp)
    IN  [heap |-> hp \o <<Ru, coarseell>>,
         Ru |-> n + 1, coarseell |-> n + 2, ucoarse |-> n + 1]

\* vcycle, lines 107-111: rfine, Ru, coarseell and ucoarse = Ru.copy()
Restrict(hp, f) ==
    LET rfine == VSub(hp[f.ell], F(fas_h(f.k), hp[f.u]))
        Ru == Rfw(f.k, hp[f.u])
        coarseell == VAdd(fas_CR(f.k, rfine), F(fas_h(f.k - 1), Ru))
        n == Len(hp)
    IN  [heap |-> hp \o <<Ru, coarseell, Ru>>,
         Ru |-> n + 1, coarseell |-> n + 2, ucoarse |-> n + 3]

\* vcycle, lines 107-112: restrict and call vcycle(k-1, ucoarse, coarseell)
V_Restrict ==
    /\ Running
    /\ Cur.pc = "restrict"
    /\ LET r == Restrict(heap, Cur)
           caller == [Cur EXCEPT !.pc = "correct", !.Ru = r.Ru,
                                 !.ucoarse = r.ucoarse, !.coarseell = r.coarseell,
                                 !.Ru0 = r.heap[r.Ru], !.uc0 = r.heap[r.ucoarse]]
       IN  /\ heap' = r.heap
           /\ stack' = Append(SetCur(caller), Frame(Cur.k - 1, r.ucoarse, r.coarseell, r.heap))
           /\ log' = Append(log, Event("vcycle", Cur.k - 1))
    /\ UNCHANGED <<fas, wu, fc, top>>
    /\ UNCHANGED notF

\* vcycle, lines 113-116: du = ucoarse - Ru; u += P(du)
V_Correct ==
    /\ Running
    /\ Cur.pc = "correct"
    /\ LET du == VSub(heap[Cur.ucoarse], heap[Cur.Ru])
       IN  /\ heap' = [heap EXCEPT ![Cur.u] = VAdd(@, P(Cur.k, du))]
           /\ stack' = SetCur([Cur EXCEPT !.pc = "up", !.q = 0, !.du = du])
           /\ log' = Append(log, Event("correct", Cur.k))
    /\ UNCHANGED <<fas, wu, fc, top>>
    /\ UNCHANGED notF

\* an up sweep in the order of the down sweeps
V_UpSweepForward ==
    /\ Running
    /\ Cur.pc = "up"
    /\ Cur.q < fas.up
    /\ SweepInPlace(Cur.k, Cur.u, Cur.ell, TRUE)
    /\ stack' = SetCur([Cur EXCEPT !.q = @ + 1])
    /\ UNCHANGED <<fas, wu, fc, top>>
    /\ UNCHANGED notF

\* vcycle, lines 118-119: one sweep of the loop
V_UpSweep ==
    /\ Running
    /\ Cur.pc = "up"
    /\ Cur.q < fas.up
    /\ SweepInPlace(Cur.k, Cur.u, Cur.ell, FALSE)
    /\ stack' = SetCur([Cur EXCEPT !.q = @ + 1])
    /\ UNCHANGED <<fas, wu, fc, top>>
    /\ UNCHANGED notF

\* vcycle, line 120
V_UpDone ==
    /\ Running
    /\ Cur.pc = "up"
    /\ Cur.q >= fas.up
    /\ wu' = [wu EXCEPT ![Cur.k] = DAdd(@, D(fas.up))]
    /\ stack' = SetCur([Cur EXCEPT !.pc = "ret"])
    /\ UNCHANGED <<fas, heap, fc, top, log>>
    /\ UNCHANGED notF

\* vcycle returns None: to the vcycle that called it (which goes on at
\* line 113), to fcycle (the loop of line 137), or to the caller
V_Return ==
    /\ Running
    /\ Cur.pc = "ret"
    /\ stack' = SubSeq(stack, 1, Len(stack) - 1)
    /\ log' = Append(log, <<"return", Cur.k, Len(stack) - 1>>)
    /\ top' = IF Len(stack) = 1 /\ top.call = "vcycle"
              THEN [top EXCEPT !.status = "returned", !.val = 0]
              ELSE top
    /\ UNCHANGED <<fas, wu, heap, fc>>
    /\ UNCHANGED notF

\* the caller runs fcycle(cycles, ep); lines 124-127: u = zeros, ellg = rhs,
\* and the call of coarsesolve(u, ellg)
CallFcycle ==
    /\ fas.status = "built"
    /\ top.call = "none"
    /\ \E c \in 0..MaxCycles, ep \in BOOLEAN :
          /\ fc' = [NoFcycle EXCEPT !.pc = "coarse", !.k = fas.kcoarse, !.u = 1,
                                    !.ellg = 2, !.cycles = c, !.ep = ep]
          /\ top' = [call |-> "fcycle", status |-> "running", k |-> fas.kfine,
                     u |-> 0, ell |-> 0, val |-> 0, u0 |-> <<>>, ell0 |-> <<>>]
    /\ heap' = <<fas_zeros(fas.kcoarse), rhs(fas.kcoarse, fas.mms)>>
    /\ log' = Append(log, Event("coarsesolve", fas.kcoarse))
    /\ UNCHANGED <<fas, wu, stack>>
    /\ UNCHANGED notF

InFcycle(pc) == top.call = "fcycle" /\ top.status = "running" /\ stack = <<>> /\ fc.pc = pc

\* coarsesolve called by fcycle, lines 92-93: one sweep of the loop
F_CoarseSweep ==
    /\ InFcycle("coarse")
    /\ fc.q < fas.coarse
    /\ SweepInPlace(fas.kcoarse, fc.u, fc.ellg, TRUE)
    /\ fc' = [fc EXCEPT !.q = @ + 1]
    /\ UNCHANGED <<fas, wu, stack, top>>
    /\ UNCHANGED notF

\* coarsesolve, line 94, and the start of the loop of line 129
F_CoarseDone ==
    /\ InFcycle("coarse")
    /\ fc.q >= fas.coarse
    /\ wu' = [wu EXCEPT ![fas.kcoarse] = DAdd(@, D(fas.coarse))]
    /\ fc' = [fc EXCEPT !.pc = "loop", !.k = fas.kcoarse + 1]
    /\ UNCHANGED <<fas, heap, stack, top, log>>
    /\ UNCHANGED notF

\* fcycle, lines 130-136: the right-hand side of level k, the prolongation
\* of u to level k and the number Z of V-cycles
F_Level ==
    /\ InFcycle("loop")
    /\ fc.k <= fas.kfine
    /\ LET ellg == rhs(fc.k, fas.mms)
           u == IF fc.ep THEN Phat(fc.k, heap[fc.u], ellg) ELSE P(fc.k, heap[fc.u])
           n == Len(heap)
       IN  /\ heap' = heap \o <<ellg, u>>
           /\ fc' = [fc EXCEPT !.pc = "cycles", !.ellg = n + 1, !.u = n + 2, !.i = 0,
                               !.Z = IF fc.k = fas.kfine THEN fc.cycles ELSE 1,
                               !.w = fc.u,
                               !.points = IF fc.ep THEN OddIndices(fc.k) ELSE <<>>]
    /\ wu' = IF fc.ep THEN [wu EXCEPT ![fc.k] = DAdd(@, DHalf(D(1)))] ELSE wu
    /\ log' = Append(log, Event(IF fc.ep THEN "Phat" ELSE "P", fc.k))
    /\ UNCHANGED <<fas, stack, top>>
    /\ UNCHANGED notF

\* fcycle, lines 137-139: s takes the next value of range(Z) and
\* vcycle(k, u, ellg) is called
F_Vcycle ==
    /\ InFcycle("cycles")
    /\ fc.i < fc.Z
    /\ fc' = [fc EXCEPT !.s = fc.i, !.i = @ + 1]
    /\ stack' = <<Frame(fc.k, fc.u, fc.ellg, heap)>>
    /\ log' = Append(log, Event("vcycle", fc.k))
    /\ UNCHANGED <<fas, wu, heap, top>>
    /\ UNCHANGED notF

\* fcycle, line 140: range(Z) is exhausted and s+1 is evaluated; s is
\* unbound (-1 here) when no loop of line 137 has run in this call
F_LevelDone ==
    /\ InFcycle("cycles")
    /\ fc.i >= fc.Z
    /\ IF fc.s = -1
       THEN /\ fc' = [fc EXCEPT !.pc = "failed"]
            /\ top' = [top EXCEPT !.status = "UnboundLocalError"]
       ELSE /\ fc' = [fc EXCEPT !.pc = "loop", !.k = @ + 1]
            /\ top' = top
    /\ UNCHANGED <<fas, wu, heap, stack, log>>
    /\ UNCHANGED notF

\* fcycle, line 141: return u
F_Return ==
    /\ InFcycle("loop")
    /\ fc.k > fas.kfine
    /\ fc' = [fc EXCEPT !.pc = "done"]
    /\ top' = [top EXCEPT !.status = "returned", !.val = fc.u]
    /\ UNCHANGED <<fas, wu, heap, stack, log>>
    /\ UNCHANGED notF

NextF ==
    \/ FAS_init
    \/ CallVcycle
    \/ CallFcycle
    \/ V_Enter
    \/ V_CoarseSweep
    \/ V_CoarseDone
    \/ V_DownSweep
    \/ V_DownDone
    \/ V_Restrict
    \/ V_Correct
    \/ V_UpSweep
    \/ V_UpDone
    \/ V_Return
    \/ F_CoarseSweep
    \/ F_CoarseDone
    \/ F_Level
    \/ F_Vcycle
    \/ F_LevelDone
    \/ F_Return

SpecF == InitF /\ [][NextF]_vars

---------------------------------------------------------------------------
(* src/py/subsetdecomp.py: the V-cycle of the constraint decomposition     *)
(* method.  hierarchy[j] is a MeshLevel1D(j) of src/py/1D/meshlevel.py.    *)
(* The modules poisson and pgs and the method mesh.P are not in the        *)
(* sources; they are modelled from the specification.                      *)

\* mesh.P(w): linear interpolation from level j-1, as cP
mesh_P(j, w) == cP(j, w).val

Interior(j) == 1..m_1D(j)

\* poisson.residual(mesh, v, F): F - A v for the Poisson stencil, zero at the
\* two boundary nodes
residual(j, v, F0) ==
    [p \in DOMAIN v |->
        IF p \notin Interior(j) THEN DZero
        ELSE DSub(F0[p], DMul(DSub(DSub(DAdd(v[p], v[p]), v[p - 1]), v[p + 1]),
                              D(2^(j + 1))))]

DLt(a, b) == ~DLeq(b, a)

\* what pgssweep returns: the number of interior nodes found below the obstacle
infeascount(j, v, phi) == Cardinality({p \in Interior(j) : DLt(v[p], phi[p])})

\* every interior value clamped onto the obstacle
PGSClamp(j, v, phi) == [p \in DOMAIN v |-> IF p \in Interior(j) THEN phi[p] ELSE v[p]]

\* only the projection: values below the obstacle are lifted onto it
PGSProject(j, v, phi) ==
    [p \in DOMAIN v |-> IF p \in Interior(j) THEN DMax(v[p], phi[p]) ELSE v[p]]

\* odd nodes end on the obstacle, even nodes strictly above it
PGSMixed(j, v, phi) ==
    [p \in DOMAIN v |->
        IF p \notin Interior(j) THEN v[p]
        ELSE IF p % 2 = 1 THEN phi[p]
        ELSE DAdd(phi[p], D(1))]

\* pgssweep(mesh, v, F, phi): the vectors v it may leave.  Every interior
\* value ends at or above phi and the boundary values are not touched; which
\* of them depends on F and on the stencil, and is left open.
pgssweep(j, v, phi) == {PGSClamp(j, v, phi), PGSProject(j, v, phi), PGSMixed(j, v, phi)}

\* the level-j obstacle taken as chi itself
ObstacleNoSplit(j, chi, chicoarse, up) ==
    IF up > 0 THEN [p \in DOMAIN chi |-> DHalf(chi[p])] ELSE chi

\* the level-j obstacle never halved
ObstacleNeverHalved(j, chi, chicoarse, up) == VSub(chi, mesh_P(j, chicoarse))

\* vcycle, lines 60-62: phi = mesh.chi - mesh.P(hierarchy[j-1].chi), halved if up > 0
Obstacle(j, chi, chicoarse, up) ==
    LET phi == VSub(chi, mesh_P(j, chicoarse))
    IN  IF up > 0 THEN [p \in DOMAIN phi |-> DHalf(phi[p])] ELSE phi

\* the defect obstacles handed to vcycle on level j
ChiInputs(j) ==
    LET n == m_1D(j) + 2
    IN  {Zeros(n), [p \in 0..(n - 1) |-> D(-1)],
         [p \in 0..(n - 1) |-> D(-(p % 2))],
         [p \in 0..(n - 1) |-> D(-((p + 1) % 2))],
         [p \in 0..(n - 1) |-> IF p = 1 THEN D(1) ELSE DZero],
         [p \in 0..(n - 1) |-> IF p = 3 THEN DZero ELSE D(-1)]}
    \cup {[p \in 0..(n - 1) |-> IF p = q THEN D(-2) ELSE DZero] : q \in 0..MaxDip}

\* a frame of vcycle
CDFrame(j, F0) ==
    [j |-> j, F |-> F0, v |-> <<>>, phi |-> <<>>, pc |-> "enter", q |-> 0,
     infeas |-> 0, vcoarse |-> <<>>, ifc |-> 0]

\* the caller's level j, its defect obstacle hierarchy[j].chi, whatever an
\* earlier cycle left on the coarser levels, and the keyword arguments
InitCD ==
    /\ IdleT
    /\ IdleF
    /\ IdleD
    /\ frames = <<>>
    /\ sweeps = <<>>
    /\ \E j \in 0..MaxCD, stale \in BOOLEAN :
       \E chi \in ChiInputs(j) :
       \E down \in 0..MaxPGS, up \in 0..MaxPGS, coarse \in 0..MaxPGS, symmetric \in BOOLEAN :
          /\ hierarchy = [i \in 0..j |->
                            [chi |-> IF i = j THEN chi
                                     ELSE IF stale THEN [p \in 0..(m_1D(i) + 1) |-> D(1)]
                                     ELSE <<>>,
                             WU |-> 0]]
          /\ cd = [status |-> "args", j |-> j, down |-> down, up |-> up,
                   coarse |-> coarse, symmetric |-> symmetric,
                   F |-> zeros_1D(j), v |-> <<>>, infeas |-> 0, chi0 |-> chi]

\* the caller calls vcycle(j, hierarchy, F, down, up, coarse, symmetric)
CD_Call ==
    /\ cd.status = "args"
    /\ cd' = [cd EXCEPT !.status = "running"]
    /\ frames' = <<CDFrame(cd.j, cd.F)>>
    /\ UNCHANGED <<hierarchy, sweeps>>
    /\ UNCHANGED notC

CDRunning == cd.status = "running" /\ frames # <<>>

CDCur == frames[Len(frames)]

CDSetCur(f) == [frames EXCEPT ![Len(frames)] = f]

\* a vcycle that keeps the chi it finds on the coarser level, if there is one
CD_EnterKeepsChi ==
    /\ CDRunning
    /\ CDCur.pc = "enter"
    /\ LET j == CDCur.j
           chi == hierarchy[j].chi
       IN  IF ~(cd.down >= 1 /\ cd.up >= 0 /\ cd.coarse >= 1)
              \/ VLen(CDCur.F) # m_1D(j) + 2
           THEN /\ frames' = <<>>
                /\ cd' = [cd EXCEPT !.status = "AssertionError"]
                /\ UNCHANGED hierarchy
           ELSE IF j = 0
           THEN /\ frames' = CDSetCur([CDCur EXCEPT !.v = zeros_1D(j), !.pc = "coarse",
                                                    !.phi = chi])
                /\ UNCHANGED <<hierarchy, cd>>
           ELSE LET chicoarse == IF hierarchy[j - 1].chi # <<>>
                                 THEN hierarchy[j - 1].chi ELSE mR(j, chi).val
                IN  /\ hierarchy' = [hierarchy EXCEPT ![j - 1].chi = chicoarse]
                    /\ frames' = CDSetCur([CDCur EXCEPT
                                             !.v = zeros_1D(j), !.pc = "down",
                                             !.phi = Obstacle(j, chi, chicoarse, cd.up)])
                    /\ UNCHANGED cd
    /\ UNCHANGED sweeps
    /\ UNCHANGED notC

\* vcycle, lines 44-62: the asserts, v = mesh.zeros(), and on a level above
\* the coarsest hierarchy[j-1].chi = mesh.mR(mesh.chi) and the obstacle phi
CD_Enter ==
    /\ CDRunning
    /\ CDCur.pc = "enter"
    /\ LET j == CDCur.j
           chi == hierarchy[j].chi
       IN  IF ~(cd.down >= 1 /\ cd.up >= 0 /\ cd.coarse >= 1)
              \/ VLen(CDCur.F) # m_1D(j) + 2
           THEN /\ frames' = <<>>
                /\ cd' = [cd EXCEPT !.status = "AssertionError"]
                /\ UNCHANGED hierarchy
           ELSE IF j = 0
           THEN /\ frames' = CDSetCur([CDCur EXCEPT !.v = zeros_1D(j), !.pc = "coarse",
                                                    !.phi = chi])
                /\ UNCHANGED <<hierarchy, cd>>
           ELSE LET chicoarse == mR(j, chi).val
                IN  /\ hierarchy' = [hierarchy EXCEPT ![j - 1].chi = chicoarse]
                    /\ frames' = CDSetCur([CDCur EXCEPT
                                             !.v = zeros_1D(j), !.pc = "down",
                                             !.phi = Obstacle(j, chi, chicoarse, cd.up)])
                    /\ UNCHANGED cd
    /\ UNCHANGED sweeps
    /\ UNCHANGED notC

\* the sweeps asked of _smoother in each phase
Asked(pc) == IF pc = "coarse" THEN cd.coarse ELSE IF pc = "down" THEN cd.down ELSE cd.up

\* a _smoother without the backward sweeps
CallsForwardOnly(pc) == Asked(pc)

\* the calls of pgssweep that _smoother makes: one or two for each sweep asked
Calls(pc) == IF cd.symmetric THEN 2 * Asked(pc) ELSE Asked(pc)

\* _smoother, lines 25-30: the next call of pgssweep, forward, or backward
\* for the second of a symmetric pair; pgssweep counts one work unit
CD_Sweep ==
    /\ CDRunning
    /\ CDCur.pc \in {"coarse", "down", "up"}
    /\ CDCur.q < Calls(CDCur.pc)
    /\ LET f == CDCur
           forward == IF cd.symmetric THEN f.q % 2 = 0 ELSE TRUE
           n == infeascount(f.j, f.v, f.phi)
       IN  /\ \E w \in pgssweep(f.j, f.v, f.phi) :
                 frames' = CDSetCur([f EXCEPT !.v = w, !.q = f.q + 1,
                                              !.infeas = f.infeas + n])
           /\ hierarchy' = [hierarchy EXCEPT ![f.j].WU = hierarchy[f.j].WU + 1]
           /\ sweeps' = Append(sweeps, <<f.j, f.pc, forward, n, f.phi>>)
    /\ UNCHANGED cd
    /\ UNCHANGED notC

\* vcycle, lines 69-74: Fcoarse = mesh.cR(residual(mesh, v, F)) and the
\* recursive call vcycle(j-1, hierarchy, Fcoarse, ...)
CD_Recurse ==
    /\ CDRunning
    /\ CDCur.pc = "down"
    /\ CDCur.q = Calls("down")
    /\ LET f == CDCur
           Fcoarse == cR(f.j, residual(f.j, f.v, f.F)).val
       IN  frames' = Append(CDSetCur([f EXCEPT !.pc = "called"]), CDFrame(f.j - 1, Fcoarse))
    /\ UNCHANGED <<hierarchy, cd, sweeps>>
    /\ UNCHANGED notC

\* the correction, with the count of the recursive call left out
CD_CorrectDropsCount ==
    /\ CDRunning
    /\ CDCur.pc = "correct"
    /\ LET f == CDCur
       IN  frames' = CDSetCur([f EXCEPT !.v = VAdd(f.v, mesh_P(f.j, f.vcoarse)),
                                        !.pc = "up", !.q = 0])
    /\ UNCHANGED <<hierarchy, cd, sweeps>>
    /\ UNCHANGED notC

\* vcycle, lines 75-76: v += mesh.P(vcoarse); infeas += ifc
CD_Correct ==
    /\ CDRunning
    /\ CDCur.pc = "correct"
    /\ LET f == CDCur
       IN  frames' = CDSetCur([f EXCEPT !.v = VAdd(f.v, mesh_P(f.j, f.vcoarse)),
                                        !.infeas = f.infeas + f.ifc,
                                        !.pc = "up", !.q = 0])
    /\ UNCHANGED <<hierarchy, cd, sweeps>>
    /\ UNCHANGED notC

\* vcycle, lines 55 and 84: return v, infeas, to the frame that called or to
\* the caller
CD_Return ==
    /\ CDRunning
    /\ CDCur.pc \in {"coarse", "up"}
    /\ CDCur.q = Calls(CDCur.pc)
    /\ LET f == CDCur
           n == Len(frames)
       IN  IF n = 1
           THEN /\ frames' = <<>>
                /\ cd' = [cd EXCEPT !.status = "returned", !.v = f.v, !.infeas = f.infeas]
           ELSE /\ frames' = [SubSeq(frames, 1, n - 1) EXCEPT
                                 ![n - 1] = [frames[n - 1] EXCEPT !.pc = "correct",
                                                !.vcoarse = f.v, !.ifc = f.infeas]]
                /\ UNCHANGED cd
    /\ UNCHANGED <<hierarchy, sweeps>>
    /\ UNCHANGED notC

NextCD ==
    \/ CD_Call
    \/ CD_Enter
    \/ CD_Sweep
    \/ CD_Recurse
    \/ CD_Correct
    \/ CD_Return

SpecCD == InitCD /\ [][NextCD]_vars

---------------------------------------------------------------------------
(* src/py/1D/obstacle.py: the driver *)

\* the command line: -jcoarse and -jfine are any integers
InitD ==
    /\ IdleT
    /\ IdleF
    /\ IdleC
    /\ \E jc \in -1..MaxJ, jf \in -1..MaxJ :
          drv = [pc |-> "args", jcoarse |-> jc, jfine |-> jf, levels |-> 0,
                 hierarchy |-> <<>>]

\* a driver that asked for jfine > jcoarse
Drv_hierarchyStrict ==
    /\ drv.pc = "args"
    /\ IF drv.jcoarse >= 0 /\ drv.jfine > drv.jcoarse
       THEN LET levels == drv.jfine - drv.jcoarse + 1
            IN  drv' = [drv EXCEPT !.pc = "built", !.levels = levels,
                            !.hierarchy = [j \in 0..(levels - 1) |->
                                             [j |-> j + drv.jcoarse, WU |-> 0]]]
       ELSE drv' = [drv EXCEPT !.pc = "AssertionError"]
    /\ UNCHANGED notD

\* lines 128-133: the two asserts, levels, and hierarchy[j] = MeshLevel1D(j + jcoarse)
Drv_hierarchy ==
    /\ drv.pc = "args"
    /\ IF drv.jcoarse >= 0 /\ drv.jfine >= drv.jcoarse
       THEN LET levels == drv.jfine - drv.jcoarse + 1
            IN  drv' = [drv EXCEPT !.pc = "built", !.levels = levels,
                            !.hierarchy = [j \in 0..(levels - 1) |->
                                             [j |-> j + drv.jcoarse, WU |-> 0]]]
       ELSE drv' = [drv EXCEPT !.pc = "AssertionError"]
    /\ UNCHANGED notD

\* either program is started: a FAS object is built and used, or the driver runs
InitB == InitF \/ InitD

NextB == NextF \/ Drv_hierarchy

SpecB == InitB /\ [][NextB]_vars

\* Python's None, the default of -errtol (line 65), and a name not yet bound
None == -1

\* lines 124-125: -nicascadic implies -ni
args_ni == drv.ni \/ drv.nicascadic

\* line 186: int(np.ceil(1.5**n)), the powers of 1.5 being exact
CeilPow(n) == (3^n + 2^n - 1) \div 2^n

\* lines 148-151: nirange
nirange == IF args_ni THEN 0..(drv.levels - 1) ELSE {drv.levels - 1}

\* the MeshLevel1D index of hierarchy[ni]
LevelOf(ni) == drv.hierarchy[ni].j

\* line 160: obsprob.phi(mesh.xx()).  The nodes of hierarchy[ni] are every
\* 2^(levels-1-ni)-th node of the finest mesh, so the obstacle of a stage is
\* the finest one sampled there.
phifineOf(ni) ==
    [p \in 0..(m_1D(LevelOf(ni)) + 1) |-> drv.phi[p * 2^(drv.levels - 1 - ni)]]

\* lines 179-188: how many cycles
itersOf(ni) ==
    IF args_ni /\ ni < drv.levels - 1
    THEN IF drv.nicascadic THEN drv.nicycles * CeilPow(drv.levels - 1 - ni)
         ELSE drv.nicycles
    ELSE drv.cyclemax

\* the values a norm reported by the monitor takes: zero, small, large
Norms == 0..2

\* the values of the error norm: below -errtol or not
ErrNorms == {0, 1}

\* the obstacles of the problem on the mesh of level j: zero, below zero
\* everywhere, a bump at the first interior node
PhiInputs(j) ==
    LET n == m_1D(j) + 2
    IN  {Zeros(n), [p \in 0..(n - 1) |-> D(-1)],
         [p \in 0..(n - 1) |-> IF p = 1 THEN D(1) ELSE DZero]}

\* the state of the script before line 127: the options read, the obstacle
\* of the problem, wusum = 0.0 (line 154), no stage begun.  swept[j] counts
\* the sweeps run on hierarchy[j] since the start; wusum0 and swept0 are
\* wusum and swept as they were when the stage began.
Started(jc, jf, ni, cas, nic, cyc, pgs, sym, exact, errtol, phi, down, up, coarse) ==
    [pc |-> "args", jcoarse |-> jc, jfine |-> jf, levels |-> 0,
     hierarchy |-> <<>>, ni |-> ni, nicascadic |-> cas,
     nicycles |-> nic, cyclemax |-> cyc, pgsonly |-> pgs,
     symmetric |-> sym, exact |-> exact, errtol |-> errtol,
     down |-> down, up |-> up, coarse |-> coarse,
     irtol |-> DHalf(D(1)), phi |-> phi,
     stage |-> -1, phifine |-> <<>>, uu |-> <<>>, iters |-> 0,
     s |-> 0, irnorm |-> None, errnorm |-> None,
     irnorm0 |-> None, first |-> None, actualits |-> 0,
     monitored |-> 0, wusum |-> DZero, wusum0 |-> DZero,
     swept |-> [j \in 0..(jf - jc) |-> 0], swept0 |-> [j \in 0..(jf - jc) |-> 0]]

\* the command line of the solve, and the obstacle of the problem; the
\* cycle is the default V(1,0) with one coarse sweep
InitS ==
    /\ IdleT
    /\ IdleF
    /\ IdleC
    /\ \E jc \in {0}, jf \in 0..MaxNI, ni \in BOOLEAN, cas \in BOOLEAN,
          nic \in 1..MaxCycles, cyc \in 0..MaxCycles, pgs \in BOOLEAN,
          sym \in BOOLEAN, exact \in BOOLEAN, errtol \in {None, 1} :
          /\ sym => pgs
          /\ cas => ~ni /\ nic = 1                      \* -nicascadic alone, -nicycles 1
          /\ ~(ni \/ cas) => nic = 1                    \* -nicycles is not read
          /\ errtol # None => exact                     \* lines 143-145
          /\ \E phi \in (IF jf >= jc THEN PhiInputs(jf) ELSE {<<>>}) :
                drv = Started(jc, jf, ni, cas, nic, cyc, pgs, sym, exact, errtol,
                              phi, 1, 0, 1)

\* the command line of a solve under the zero obstacle, stopped on the
\* residual, with any cycle V(down, up) and any number of coarse sweeps
InitW ==
    /\ IdleT
    /\ IdleF
    /\ IdleC
    /\ \E jf \in 0..MaxNI, ni \in BOOLEAN, cas \in BOOLEAN,
          nic \in 1..MaxCycles, cyc \in 0..MaxCycles, pgs \in BOOLEAN,
          sym \in BOOLEAN, down \in {1}, up \in 0..MaxPGS,
          coarse \in 1..(MaxPGS + 1) :
          /\ cas => ~ni /\ nic = 1
          /\ ~(ni \/ cas) => nic = 1
          /\ pgs => down = 1 /\ up = 0 /\ coarse = 1     \* not read with -pgsonly
          /\ drv = Started(0, jf, ni, cas, nic, cyc, pgs, sym, FALSE, None,
                           Zeros(m_1D(jf) + 2), down, up, coarse)

\* the first stage after the hierarchy is built, the next one after a stage
NextStage ==
    IF drv.pc = "built" THEN IF args_ni THEN 0 ELSE drv.levels - 1
    ELSE drv.stage + 1

\* a stage whose prolonged iterate is not truncated
Drv_stageNoTruncate ==
    /\ drv.pc \in {"built", "next"}
    /\ LET ni == NextStage
           phifine == phifineOf(ni)
           uu == IF args_ni /\ ni > 0
                 THEN cP(LevelOf(ni), drv.uu).val
                 ELSE [p \in DOMAIN phifine |-> DMax(phifine[p], DZero)]
       IN  drv' = [drv EXCEPT !.pc = "loop", !.stage = ni, !.phifine = phifine,
                       !.uu = uu, !.iters = itersOf(ni), !.s = 0,
                       !.monitored = 0, !.first = None,
                       !.wusum0 = drv.wusum, !.swept0 = drv.swept]
    /\ UNCHANGED notD

\* lines 157-188: a stage of the nested iteration begins
Drv_stage ==
    /\ drv.pc \in {"built", "next"}
    /\ LET ni == NextStage
           phifine == phifineOf(ni)
           uu == IF args_ni /\ ni > 0
                 THEN LET Pu == cP(LevelOf(ni), drv.uu).val
                      IN  [p \in DOMAIN phifine |-> DMax(phifine[p], Pu[p])]
                 ELSE [p \in DOMAIN phifine |-> DMax(phifine[p], DZero)]
       IN  drv' = [drv EXCEPT !.pc = "loop", !.stage = ni, !.phifine = phifine,
                       !.uu = uu, !.iters = itersOf(ni), !.s = 0,
                       !.monitored = 0, !.first = None,
                       !.wusum0 = drv.wusum, !.swept0 = drv.swept]
    /\ UNCHANGED notD

\* lines 193-205 with the norms the monitor reported: TRUE when the loop breaks
Breaks(irnorm, errnorm) ==
    IF errnorm # None /\ drv.errtol # None /\ drv.stage = drv.levels - 1
    THEN errnorm < drv.errtol
    ELSE IF drv.s = 0 THEN irnorm = 0
         ELSE DLeq(D(irnorm), DMul(drv.irtol, D(drv.irnorm0)))

\* a loop that stops only when irnorm < irtol * irnorm0
BreaksStrict(irnorm, errnorm) ==
    IF errnorm # None /\ drv.errtol # None /\ drv.stage = drv.levels - 1
    THEN errnorm < drv.errtol
    ELSE IF drv.s = 0 THEN irnorm = 0
         ELSE DLt(D(irnorm), DMul(drv.irtol, D(drv.irnorm0)))

\* the loop of Drv_monitor with the strict test
Drv_monitorStrict ==
    /\ drv.pc = "loop"
    /\ drv.s < drv.iters
    /\ \E irnorm \in Norms, errnorm \in (IF drv.exact THEN ErrNorms ELSE {None}) :
          LET special == errnorm # None /\ drv.errtol # None
                            /\ drv.stage = drv.levels - 1
          IN  drv' = [drv EXCEPT
                        !.pc = IF BreaksStrict(irnorm, errnorm) THEN "stagedone" ELSE "cycle",
                        !.irnorm = irnorm, !.errnorm = errnorm,
                        !.irnorm0 = IF ~special /\ drv.s = 0 /\ irnorm # 0
                                    THEN irnorm ELSE @,
                        !.first = IF drv.s = 0 THEN irnorm ELSE @,
                        !.monitored = @ + 1]
    /\ UNCHANGED notD

\* lines 191-205: the top of an iteration.  mon.irerr reports the norm of the
\* inactive residual and, with an exact solution, of the error; then the
\* stopping tests.  first is the norm irerr reported at s = 0 of the stage and
\* monitored the number of its calls in the loop of the stage.
Drv_monitor ==
    /\ drv.pc = "loop"
    /\ drv.s < drv.iters
    /\ \E irnorm \in Norms, errnorm \in (IF drv.exact THEN ErrNorms ELSE {None}) :
          LET special == errnorm # None /\ drv.errtol # None
                            /\ drv.stage = drv.levels - 1
          IN  drv' = [drv EXCEPT
                        !.pc = IF Breaks(irnorm, errnorm) THEN "stagedone" ELSE "cycle",
                        !.irnorm = irnorm, !.errnorm = errnorm,
                        !.irnorm0 = IF ~special /\ drv.s = 0 /\ irnorm # 0
                                    THEN irnorm ELSE @,
                        !.first = IF drv.s = 0 THEN irnorm ELSE @,
                        !.monitored = @ + 1]
    /\ UNCHANGED notD

\* the corrections y >= chi a cycle may return: the one that lands on the
\* obstacle, and one strictly inside at odd nodes
Corrections(j, chi) ==
    {chi,
     [p \in DOMAIN chi |-> IF p \in Interior(j)
                           THEN (IF p % 2 = 1 THEN DAdd(chi[p], D(1)) ELSE chi[p])
                           ELSE DZero]}

\* the calls of pgssweep on hierarchy[i] in one cycle from hierarchy[ni]:
\* with -pgsonly one sweep on the finest level of the stage, two if
\* symmetric; else down + up smoother sweeps on each level above the coarsest
\* and coarse sweeps there, each doubled if symmetric
SweepsOf(ni, i) ==
    LET twice == IF drv.symmetric THEN 2 ELSE 1
    IN  IF i > ni THEN 0
        ELSE IF drv.pgsonly THEN (IF i = ni THEN twice ELSE 0)
        ELSE IF i = 0 THEN drv.coarse * twice
        ELSE (drv.down + drv.up) * twice

\* hierarchy with the sweeps of one cycle from hierarchy[ni] counted in WU
Worked(h, ni) == [i \in DOMAIN h |-> [h[i] EXCEPT !.WU = @ + SweepsOf(ni, i)]]

\* lines 206-225: one cycle.  With -pgsonly the smoother sweeps uu in place,
\* else hierarchy[ni].chi = phifine - uu, the cycle returns y, and uu += y.
\* Every sweep adds one to the WU of its level.
Drv_cycle ==
    /\ drv.pc = "cycle"
    /\ LET ni == drv.stage
           j == LevelOf(ni)
           h == Worked(drv.hierarchy, ni)
           swept == [i \in DOMAIN drv.swept |-> drv.swept[i] + SweepsOf(ni, i)]
       IN  IF drv.pgsonly
           THEN \E u1 \in pgssweep(j, drv.uu, drv.phifine) :
                   \E u2 \in (IF drv.symmetric THEN pgssweep(j, u1, drv.phifine) ELSE {u1}) :
                      drv' = [drv EXCEPT !.pc = "loop", !.uu = u2,
                                         !.hierarchy = h, !.swept = swept,
                                         !.actualits = drv.s + 1, !.s = @ + 1]
           ELSE LET chi == VSub(drv.phifine, drv.uu)
                IN  \E y \in Corrections(j, chi) :
                       drv' = [drv EXCEPT !.pc = "loop",
                                 !.hierarchy = [h EXCEPT ![ni] =
                                                  [j |-> j, WU |-> h[ni].WU, chi |-> chi]],
                                 !.swept = swept,
                                 !.uu = VAdd(drv.uu, y),
                                 !.actualits = drv.s + 1, !.s = @ + 1]
    /\ UNCHANGED notD

\* lines 226-227: the loop ran out without a break, the monitor reports once more
Drv_exhausted ==
    /\ drv.pc = "loop"
    /\ drv.s >= drv.iters
    /\ drv' = [drv EXCEPT !.pc = "stagedone"]
    /\ UNCHANGED notD

\* lines 230-231: wusum after hierarchy[j].WU / 2**(levels - 1 - j) is added
\* for j, j+1, ..., ni
RECURSIVE WorkFrom(_, _, _)
WorkFrom(sum, j, ni) ==
    IF j > ni THEN sum
    ELSE WorkFrom(DAdd(sum, DNorm(drv.hierarchy[j].WU, drv.levels - 1 - j)), j + 1, ni)

\* the end of a stage that sums the work units and leaves the counters
Drv_stageDoneNoReset ==
    /\ drv.pc = "stagedone"
    /\ drv' = [drv EXCEPT
                 !.pc = IF drv.stage + 1 \in nirange THEN "next" ELSE "done",
                 !.wusum = WorkFrom(drv.wusum, 0, drv.stage)]
    /\ UNCHANGED notD

\* lines 229-232 and the outer for: the work units of the levels 0..ni are
\* added to wusum and zeroed, and the next stage begins if there is one
Drv_stageDone ==
    /\ drv.pc = "stagedone"
    /\ drv' = [drv EXCEPT
                 !.pc = IF drv.stage + 1 \in nirange THEN "next" ELSE "done",
                 !.wusum = WorkFrom(drv.wusum, 0, drv.stage),
                 !.hierarchy = [j \in DOMAIN drv.hierarchy |->
                                  IF j <= drv.stage
                                  THEN [drv.hierarchy[j] EXCEPT !.WU = 0]
                                  ELSE drv.hierarchy[j]]]
    /\ UNCHANGED notD

NextS ==
    \/ Drv_hierarchy
    \/ Drv_stage
    \/ Drv_monitor
    \/ Drv_cycle
    \/ Drv_exhausted
    \/ Drv_stageDone

SpecS == InitS /\ [][NextS]_vars

\* the same script, its work units followed for every shape of cycle
SpecW == InitW /\ [][NextS]_vars

---------------------------------------------------------------------------
(* Properties of the FAS cycles *)

\* a vcycle(k, u, ell) of the caller with u = 0 and ell = 0 on a level k >= kcoarse
ZeroCall ==
    /\ top.call = "vcycle"
    /\ top.k >= fas.kcoarse
    /\ top.u0 = fas_zeros(top.k)
    /\ top.ell0 = fas_zeros(top.k)

\* C4: zero is a fixed point of the V-cycle.  A call vcycle(k, u, ell) with
\* u = 0 and ell = 0 on a level kcoarse <= k <= kfine, for any down, up and
\* coarse >= 0, does not fail, and when it has returned u is the zero vector.
C4_ZeroFixedPoint ==
    ZeroCall =>
        /\ top.status \in {"running", "returned"}
        /\ top.status = "returned" => heap[top.u] = fas_zeros(top.k)

\* C4 witness: such a call on the finest level of a three-level hierarchy
\* has returned after sweeps on every level.
C4_Witness ==
    /\ ZeroCall
    /\ top.status = "returned"
    /\ top.k = MaxK
    /\ fas.kcoarse = 0
    /\ fas.down > 0 /\ fas.up > 0 /\ fas.coarse > 0

IsSweep(e) == e[1] \in {"sweep+", "sweep-"}

\* the number of sweeps the log holds on level k
SweepCount(k) == Len(SelectSeq(log, LAMBDA e : IsSweep(e) /\ e[2] = k))

\* the sum over k = from..kfine of 2^-(kfine-k) times the sweeps done on level k
RECURSIVE WeightedSweeps(_, _)
WeightedSweeps(kfine, k) ==
    IF k > kfine THEN DZero
    ELSE DAdd(DNorm(SweepCount(k), kfine - k), WeightedSweeps(kfine, k + 1))

\* one vcycle(kfine, u, ell) of the caller has returned
OneVcycleDone == top.call = "vcycle" /\ top.k = fas.kfine /\ top.status = "returned"

\* C5: work units.  After one vcycle(kfine, u, ell) on a new FAS object,
\* wu[k] = down + up for kcoarse < k <= kfine, wu[kcoarse] = coarse and
\* wu[k] = 0 below kcoarse; wu[k] is the number of sweeps done on level k, and
\* wutotal() is the sum over the levels of 2^-(kfine-k) times that number.
C5_WorkUnits ==
    OneVcycleDone =>
        /\ \A k \in 0..fas.kfine :
              /\ wu[k] = IF k > fas.kcoarse THEN D(fas.down + fas.up)
                         ELSE IF k = fas.kcoarse THEN D(fas.coarse) ELSE DZero
              /\ wu[k] = D(SweepCount(k))
        /\ wutotal(wu, fas.kfine) = WeightedSweeps(fas.kfine, 0)

\* C5 witness: one V(1,0) cycle with two coarse sweeps on three levels has
\* returned; its total is 1 + 1/2 + 2/4 = 2 work units.
C5_Witness ==
    /\ OneVcycleDone
    /\ fas.kfine = MaxK /\ fas.kcoarse = MaxK - 2
    /\ fas.down = 1 /\ fas.up = 0 /\ fas.coarse = 2
    /\ wutotal(wu, fas.kfine) = D(2)

\* C6 as claimed: a coarse level index that is negative, or not strictly
\* below the fine level index, is rejected by FAS.__init__ and by the driver
\* before anything else runs.
C6_StrictlyBelow ==
    /\ fas.status \in {"built", "AssertionError"} =>
          (fas.status = "built" <=> (fas.kcoarse >= 0 /\ fas.kcoarse < fas.kfine))
    /\ drv.pc \in {"built", "AssertionError"} =>
          (drv.pc = "built" <=> (drv.jcoarse >= 0 /\ drv.jcoarse < drv.jfine))

\* C6 as amended: FAS.__init__ rejects kcoarse < 0 and kcoarse >= kfine, and
\* no cycle of a FAS object runs otherwise; the driver rejects jcoarse < 0
\* and jcoarse > jfine only: it accepts jcoarse = jfine and builds a
\* hierarchy of one level.
C6_LevelIndices ==
    /\ fas.status \in {"built", "AssertionError"} =>
          (fas.status = "built" <=> (fas.kcoarse >= 0 /\ fas.kcoarse < fas.kfine))
    /\ top.call \in {"vcycle", "fcycle"} => (fas.kcoarse >= 0 /\ fas.kcoarse < fas.kfine)
    /\ drv.pc \in {"built", "AssertionError"} =>
          (drv.pc = "built" <=> (drv.jcoarse >= 0 /\ drv.jcoarse <= drv.jfine))
    /\ drv.pc = "built" =>
          /\ drv.levels = drv.jfine - drv.jcoarse + 1
          /\ DOMAIN drv.hierarchy = 0..(drv.levels - 1)

\* C6 witness: the driver has built a hierarchy of one level from equal indices.
C6_Witness ==
    /\ drv.pc = "built"
    /\ drv.jcoarse = drv.jfine
    /\ drv.levels = 1

\* C9: vcycle acts on its iterate only.  It returns None; the caller's u is
\* the vector of the outermost frame; the vector behind ell of every frame is
\* the one it was at entry; the vector behind Ru of every frame is the one
\* that Rfw returned, also after the recursive call; and du is the vector
\* behind ucoarse after the recursive call minus the one handed to it.
C9_FrameEffect ==
    /\ (top.call = "vcycle" /\ top.status = "returned") =>
           (top.val = 0 /\ heap[top.ell] = top.ell0)
    /\ (top.call = "vcycle" /\ stack # <<>>) => (stack[1].u = top.u /\ stack[1].ell = top.ell)
    /\ \A i \in DOMAIN stack :
          /\ heap[stack[i].ell] = stack[i].ell0
          /\ stack[i].Ru # 0 => heap[stack[i].Ru] = stack[i].Ru0
          /\ stack[i].pc \in {"up", "ret"} /\ stack[i].ucoarse # 0 =>
                stack[i].du = VSub(heap[stack[i].ucoarse], stack[i].uc0)

\* C9 witness: one level below the caller's, a frame has taken a nonzero
\* correction du from its recursive call, which changed ucoarse and not Ru.
C9_Witness ==
    /\ top.call = "vcycle"
    /\ Len(stack) = 2
    /\ Cur.pc = "up"
    /\ Cur.du # fas_zeros(Cur.k - 1)
    /\ heap[Cur.ucoarse] # heap[Cur.Ru]

\* what fcycle itself has done, in order: its coarse solve, its
\* prolongations and its calls of vcycle
IsScheduled(e) == e[3] = 0 /\ e[1] \in {"coarsesolve", "P", "Phat", "vcycle"}

Repeat(e, n) == [i \in 1..n |-> e]

\* for k, ..., kfine: one prolongation to level k, then one vcycle(k) below
\* kfine and c of them on kfine
RECURSIVE LevelSchedule(_, _, _, _)
LevelSchedule(k, kfine, c, ep) ==
    IF k > kfine THEN <<>>
    ELSE <<<<IF ep THEN "Phat" ELSE "P", k, 0>>>>
         \o Repeat(<<"vcycle", k, 0>>, IF k = kfine THEN c ELSE 1)
         \o LevelSchedule(k + 1, kfine, c, ep)

Schedule(kcoarse, kfine, c, ep) ==
    <<<<"coarsesolve", kcoarse, 0>>>> \o LevelSchedule(kcoarse + 1, kfine, c, ep)

\* C10 as claimed: for every kcoarse < kfine and cycles = c >= 0, with or
\* without enhanced prolongation, fcycle ends by returning a vector on level
\* kfine, after the coarse solve and then, for k = kcoarse+1, ..., kfine, one
\* prolongation to level k and one vcycle(k), c of them on level kfine.
C10_FcycleSchedule ==
    (top.call = "fcycle" /\ top.status # "running") =>
        /\ top.status = "returned"
        /\ VLen(heap[top.val]) = fas_m(fas.kfine) + 1
        /\ SelectSeq(log, IsScheduled) = Schedule(fas.kcoarse, fas.kfine, fc.cycles, fc.ep)

---------------------------------------------------------------------------
(* Properties of the constraint-decomposition V-cycle *)

\* chi <= 0 at every node
Admissible(chi) == \A p \in DOMAIN chi : DLeq(chi[p], DZero)

\* v >= chi at every node
Above(v, chi) == \A p \in DOMAIN chi : DLeq(chi[p], v[p])

\* C3: feasibility of the constraint-decomposition V-cycle.  If
\* hierarchy[j].chi <= 0 at every node, and every projected sweep leaves the
\* interior values of v at or above the obstacle it is given and the two
\* boundary values alone, then for down >= 1, up >= 0, coarse >= 1,
\* symmetric or not, the v that vcycle(j, hierarchy, F) returns has
\* v[p] >= hierarchy[j].chi[p] at every node p; so has the v that every
\* recursive call returns, for the chi of its level.
C3_Feasible ==
    /\ (cd.status = "returned" /\ Admissible(hierarchy[cd.j].chi)) =>
           Above(cd.v, hierarchy[cd.j].chi)
    /\ \A i \in DOMAIN frames :
          (/\ frames[i].pc = "correct"
           /\ Admissible(hierarchy[cd.j].chi)) =>
              Above(frames[i].vcoarse, hierarchy[frames[i].j - 1].chi)

\* C3 witness: a V(1,0) cycle on the finest level has returned a correction
\* that lies on a negative defect obstacle at an interior node.
C3_Witness ==
    /\ cd.status = "returned"
    /\ cd.j = MaxCD
    /\ cd.up = 0
    /\ Admissible(hierarchy[cd.j].chi)
    /\ \E p \in Interior(cd.j) :
          /\ DLt(hierarchy[cd.j].chi[p], DZero)
          /\ cd.v[p] = hierarchy[cd.j].chi[p]

\* the sum of the counts that the calls of pgssweep number from..Len(sweeps) returned
RECURSIVE CountsFrom(_)
CountsFrom(from) ==
    IF from > Len(sweeps) THEN 0 ELSE sweeps[from][4] + CountsFrom(from + 1)

\* C11: the infeasibility count that vcycle(j, ...) returns is the sum of the
\* counts returned by every projected sweep run during the call, on all the
\* levels 0..j (coarse, down and up sweeps, the recursive call's included);
\* so it is 0 exactly when every sweep returned 0.
C11_InfeasSum ==
    cd.status = "returned" =>
        /\ cd.infeas = CountsFrom(1)
        /\ cd.infeas = 0 <=> \A i \in DOMAIN sweeps : sweeps[i][4] = 0

\* C11 witness: a cycle from the finest level has returned a count made of
\* nonzero counts of sweeps on two different levels.
C11_Witness ==
    /\ cd.status = "returned"
    /\ cd.j = MaxCD
    /\ \E a, b \in DOMAIN sweeps :
          /\ sweeps[a][1] # sweeps[b][1]
          /\ sweeps[a][4] > 0
          /\ sweeps[b][4] > 0
          /\ cd.infeas >= sweeps[a][4] + sweeps[b][4]

\* the frames of vcycle that have restricted their defect obstacle
Restricted == {i \in DOMAIN frames : frames[i].j > 0 /\ frames[i].pc # "enter"}

\* the fine nodes 2q-1, 2q, 2q+1 of level j that exist
Summarized(j, q) == {p \in 0..(m_1D(j) + 1) : p \in {2*q - 1, 2*q, 2*q + 1}}

\* C12 as claimed: at every coarse node q the restricted defect obstacle
\* chi^{j-1}[q] is no larger than any of the fine values chi^j[2q-1],
\* chi^j[2q], chi^j[2q+1] it summarizes.
C12_NoLarger ==
    \A i \in Restricted :
        LET j == frames[i].j
        IN  \A q \in 0..(m_1D(j - 1) + 1) : \A p \in Summarized(j, q) :
               DLeq(hierarchy[j - 1].chi[q], hierarchy[j].chi[p])

\* C12 as amended: at every interior coarse node q the restricted defect
\* obstacle chi^{j-1}[q] is one of the three fine values chi^j[2q-1],
\* chi^j[2q], chi^j[2q+1] and no smaller than any of them (it is their
\* maximum); at the two boundary nodes it is 0, which is no smaller than the
\* fine values there when chi^j <= 0.
C12_NoSmaller ==
    \A i \in Restricted :
        LET j == frames[i].j
            chi == hierarchy[j].chi
            chicoarse == hierarchy[j - 1].chi
        IN  /\ \A q \in Interior(j - 1) :
                  /\ \E p \in Summarized(j, q) : chicoarse[q] = chi[p]
                  /\ \A p \in Summarized(j, q) : DLeq(chi[p], chicoarse[q])
            /\ \A q \in {0, m_1D(j - 1) + 1} :
                  /\ chicoarse[q] = DZero
                  /\ Admissible(chi) => \A p \in Summarized(j, q) : DLeq(chi[p], chicoarse[q])

\* C12 witness: on the finest level the restricted obstacle is strictly
\* larger than a fine value it summarizes, at an interior coarse node.
C12_Witness ==
    \E i \in Restricted :
        /\ frames[i].j = MaxCD
        /\ \E q \in Interior(MaxCD - 1) : \E p \in Summarized(MaxCD, q) :
              DLt(hierarchy[MaxCD].chi[p], hierarchy[MaxCD - 1].chi[q])

---------------------------------------------------------------------------
(* Properties of the enhanced prolongation *)

\* fcycle has just prolonged u to level fc.k and has called no vcycle on it
JustProlonged == InFcycle("cycles") /\ fc.i = 0

\* how often ngspoint was called at node p by the last Phat
TimesRelaxed(p) == Cardinality({i \in DOMAIN fc.points : fc.points[i] = p})

\* C14: enhanced prolongation touches the odd nodes only.  Phat(k, w, ell)
\* calls ngspoint exactly once at each odd interior node p = 1, 3, ..., m-1
\* and at no even node, so the even entries of its result are those of P(w)
\* and each odd entry is the one ngspoint leaves there; the plain
\* prolongation calls it nowhere.  fcycle with enhanced prolongation adds
\* exactly 0.5 to wu[k] on each level k = kcoarse+1..kfine, and nothing
\* without it: besides that, wu[k] counts the sweeps of level k.
C14_OddNodesOnly ==
    /\ JustProlonged =>
          LET k == fc.k
              Pw == P(k, heap[fc.w])
              u == heap[fc.u]
          IN  /\ \A p \in 0..fas_m(k) :
                    TimesRelaxed(p) = IF fc.ep /\ p % 2 = 1 THEN 1 ELSE 0
              /\ \A p \in 0..fas_m(k) : p % 2 = 0 => u[p] = Pw[p]
              /\ \A p \in 0..fas_m(k) : p % 2 = 1 =>
                    u[p] = IF fc.ep THEN ngspoint(fas_h(k), Pw, heap[fc.ellg], p)[p]
                           ELSE Pw[p]
              /\ wu[k] = IF fc.ep THEN DHalf(D(1)) ELSE DZero
    /\ (top.call = "fcycle" /\ top.status = "returned") =>
          \A k \in 0..fas.kfine :
             wu[k] = DAdd(D(SweepCount(k)),
                          IF fc.ep /\ k > fas.kcoarse THEN DHalf(D(1)) ELSE DZero)

\* C14 witness: Phat to the finest of three levels has changed an odd entry
\* of the plain prolongation.
C14_Witness ==
    /\ JustProlonged
    /\ fc.ep
    /\ fc.k = MaxK
    /\ fas.kcoarse = MaxK - 2
    /\ \E p \in 1..(fas_m(fc.k) - 1) :
          /\ p % 2 = 1
          /\ heap[fc.u][p] # P(fc.k, heap[fc.w])[p]

---------------------------------------------------------------------------
(* Order of the steps of one FAS V-cycle *)

\* the positions in the log of the events e on level k
At(e, k) == {i \in DOMAIN log : log[i][1] = e /\ log[i][2] = k}

\* the caller's vcycle(k, u, ell) has returned
VcycleDone == top.call = "vcycle" /\ top.status = "returned"

\* C15: the order of the steps of one FAS V-cycle on a level k > kcoarse:
\* exactly `down` sweeps over the nodes 1..m-1 in increasing order, then the
\* restriction and exactly one recursive vcycle(k-1), which runs to its
\* return, then the correction of u, and only then exactly `up` sweeps over
\* the nodes m-1..1 in decreasing order; no sweep on level k happens
\* between the start and the return of the recursive call.
C15_StepOrder ==
    /\ VcycleDone =>
          \A k \in (fas.kcoarse + 1)..top.k :
             /\ Len(SweepIndices(k, TRUE)) = fas_m(k) - 1
             /\ Len(SweepIndices(k, FALSE)) = fas_m(k) - 1
             /\ \A i \in 1..(fas_m(k) - 1) :
                   /\ SweepIndices(k, TRUE)[i] = i
                   /\ SweepIndices(k, FALSE)[i] = fas_m(k) - i
             /\ Cardinality(At("sweep+", k)) = fas.down
             /\ Cardinality(At("sweep-", k)) = fas.up
             /\ Cardinality(At("vcycle", k - 1)) = 1
             /\ Cardinality(At("return", k - 1)) = 1
             /\ Cardinality(At("correct", k)) = 1
             /\ \A c \in At("vcycle", k - 1), r \in At("return", k - 1), x \in At("correct", k) :
                   /\ c < r /\ r < x
                   /\ \A i \in At("sweep+", k) : i < c
                   /\ \A i \in At("sweep-", k) : x < i
                   /\ \A i \in DOMAIN log : (c < i /\ i < r) => log[i][2] < k

\* C15 witness: a V-cycle over three levels with down and up sweeps has returned.
C15_Witness ==
    /\ VcycleDone
    /\ top.k = MaxK
    /\ fas.kcoarse = MaxK - 2
    /\ fas.down = MaxSweeps
    /\ fas.up > 0
    /\ fas.coarse > 0

---------------------------------------------------------------------------
(* Both recursive cycles: a FAS object and its calls, or one call of the   *)
(* constraint-decomposition vcycle.                                        *)

InitRec == InitF \/ InitCD

NextRec == NextF \/ NextCD

SpecRec == InitRec /\ [][NextRec]_vars

\* the frames of FAS.vcycle go down one level at a time from the level of
\* the outermost call, stop at kcoarse and sweep there as coarsesolve only
FASDepth ==
    (stack # <<>> /\ stack[1].k >= fas.kcoarse) =>
        /\ top.status = "running"
        /\ Len(stack) <= stack[1].k - fas.kcoarse + 1
        /\ \A i \in DOMAIN stack :
              /\ stack[i].k = stack[1].k - (i - 1)
              /\ stack[i].k >= fas.kcoarse
              /\ stack[i].k = fas.kcoarse <=> stack[i].pc \in {"enter", "coarse", "ret"} /\ i = Len(stack)
                                               /\ Len(stack) = stack[1].k - fas.kcoarse + 1
              /\ stack[i].pc = "coarse" => stack[i].k = fas.kcoarse
        /\ \A i \in DOMAIN log : log[i][2] >= fas.kcoarse

\* a returned vcycle(k) has made one call per level kcoarse..k-1 and has
\* swept on kcoarse `coarse` times, in one coarse solve
FASCalls ==
    (VcycleDone /\ top.k >= fas.kcoarse) =>
        /\ \A k \in fas.kcoarse..top.k : Cardinality(At("vcycle", k)) = 1
        /\ \A k \in 0..fas.kfine : k \notin fas.kcoarse..top.k => At("vcycle", k) = {}
        /\ Cardinality(At("coarsesolve", fas.kcoarse)) = 1
        /\ \A k \in 0..fas.kfine : k # fas.kcoarse => At("coarsesolve", k) = {}
        /\ Cardinality(At("sweep+", fas.kcoarse)) = fas.coarse
        /\ At("sweep-", fas.kcoarse) = {}

\* the same for the frames of the constraint-decomposition vcycle, which
\* stop at level 0
CDDepth ==
    /\ Len(frames) <= (IF cd.status = "running" THEN cd.j + 1 ELSE 0)
    /\ \A i \in DOMAIN frames :
          /\ frames[i].j = cd.j - (i - 1)
          /\ frames[i].j >= 0
          /\ frames[i].j = 0 => frames[i].pc \in {"enter", "coarse"} /\ i = Len(frames)
          /\ frames[i].pc = "coarse" => (frames[i].j = 0 /\ Len(frames) = cd.j + 1)
          /\ i < Len(frames) => frames[i].pc = "called"
    /\ \A i \in DOMAIN sweeps :
          /\ sweeps[i][1] \in 0..cd.j
          /\ sweeps[i][2] = "coarse" <=> sweeps[i][1] = 0
    /\ cd.status = "returned" =>
          Cardinality({i \in DOMAIN sweeps : sweeps[i][1] = 0}) = Calls("coarse")
    /\ cd.status = "AssertionError" => ~(cd.down >= 1 /\ cd.coarse >= 1)

\* the steps that vcycle(k) of a FAS object takes from its entry to its return
RECURSIVE FASSteps(_)
FASSteps(k) ==
    IF k <= fas.kcoarse THEN fas.coarse + 3
    ELSE fas.down + fas.up + 6 + FASSteps(k - 1)

\* the steps a frame of FAS.vcycle has left, the call it has yet to make
\* included, those of a call it waits for not
FASLeft(f) ==
    IF f.k < fas.kcoarse THEN 1
    ELSE IF f.pc = "enter" THEN FASSteps(f.k)
    ELSE IF f.pc = "coarse" THEN (fas.coarse - f.q) + 2
    ELSE IF f.pc = "down" THEN (fas.down - f.q) + FASSteps(f.k - 1) + fas.up + 5
    ELSE IF f.pc = "restrict" THEN FASSteps(f.k - 1) + fas.up + 4
    ELSE IF f.pc = "correct" THEN fas.up + 3
    ELSE IF f.pc = "up" THEN (fas.up - f.q) + 2
    ELSE 1

RECURSIVE FASRank(_)
FASRank(st) == IF st = <<>> THEN 0 ELSE FASLeft(Head(st)) + FASRank(Tail(st))

\* the same for the constraint-decomposition vcycle(j)
RECURSIVE CDSteps(_)
CDSteps(j) ==
    IF j <= 0 THEN Calls("coarse") + 2
    ELSE Calls("down") + Calls("up") + 4 + CDSteps(j - 1)

CDLeft(f) ==
    IF f.pc = "enter" THEN CDSteps(f.j)
    ELSE IF f.pc = "coarse" THEN (Calls("coarse") - f.q) + 1
    ELSE IF f.pc = "down" THEN (Calls("down") - f.q) + CDSteps(f.j - 1) + Calls("up") + 3
    ELSE IF f.pc \in {"called", "correct"} THEN Calls("up") + 2
    ELSE (Calls("up") - f.q) + 1

RECURSIVE CDRank(_)
CDRank(fr) == IF fr = <<>> THEN 0 ELSE CDLeft(Head(fr)) + CDRank(Tail(fr))

\* a started cycle is never stuck: while a call runs it has a frame, whose
\* position is one from which the code goes on (a loop counter within its
\* range, or a statement of vcycle)
NotStuck ==
    /\ \A i \in DOMAIN stack :
          /\ stack[i].pc \in {"enter", "coarse", "down", "restrict", "correct", "up", "ret"}
          /\ stack[i].pc = "coarse" => stack[i].q \in 0..fas.coarse
          /\ stack[i].pc = "down" => stack[i].q \in 0..fas.down
          /\ stack[i].pc = "up" => stack[i].q \in 0..fas.up
          /\ i < Len(stack) => stack[i].pc = "correct"
    /\ \A i \in DOMAIN frames :
          /\ frames[i].pc \in {"enter", "coarse", "down", "called", "correct", "up"}
          /\ frames[i].pc \in {"coarse", "down", "up"} =>
                frames[i].q \in 0..Calls(frames[i].pc)
          /\ i = Len(frames) => frames[i].pc # "called"
    /\ (top.call = "vcycle" /\ top.status = "running") => stack # <<>>
    /\ cd.status = "running" => frames # <<>>
    /\ (top.call = "vcycle" /\ top.k >= fas.kcoarse) => top.status \in {"running", "returned"}

\* every step of a cycle brings its return nearer
Nearer ==
    /\ stack # <<>> => (FASRank(stack) > 0 /\ FASRank(stack') < FASRank(stack))
    /\ frames # <<>> => (CDRank(frames) > 0 /\ CDRank(frames') < CDRank(frames))

\* C16: both recursive cycles terminate, at a depth bounded by the number
\* of levels.  FAS.vcycle(k) for kcoarse <= k <= kfine and the
\* constraint-decomposition vcycle(j) make one recursive call per level
\* above the coarsest, each one level lower, reach the coarsest level after
\* k - kcoarse (resp. j) nested calls, only sweep `coarse` times there
\* without recursion, and never touch a level below it.  While a call runs a
\* step can always be taken, and every step lowers a nonnegative count of
\* the steps left: every call ends, and vcycle(k) with k >= kcoarse returns.
C16_Terminates ==
    /\ [](FASDepth /\ FASCalls /\ CDDepth /\ NotStuck)
    /\ [][Nearer]_vars

\* C16 witness: the constraint-decomposition vcycle sweeps on level 0, held
\* by the frames of all the levels above.
C16_Witness ==
    /\ cd.status = "running"
    /\ cd.j = MaxCD
    /\ Len(frames) = MaxCD + 1
    /\ frames[Len(frames)].pc = "coarse"
    /\ frames[Len(frames)].q > 0

---------------------------------------------------------------------------
(* Sweeps of the constraint-decomposition V-cycle *)

\* the projected sweeps of one phase on level j, in the order they ran
PhaseSweeps(j, phase) == SelectSeq(sweeps, LAMBDA e : e[1] = j /\ e[2] = phase)

\* one configured sweep is two calls of pgssweep in symmetric mode
PerSweep == IF cd.symmetric THEN 2 ELSE 1

Delegated(j) ==
    LET chi == hierarchy[j].chi
        Pc == mesh_P(j, mR(j, chi).val)
    IN  [p \in DOMAIN chi |-> DSub(chi[p], Pc[p])]

\* C18: the local obstacle of a level.  On every level j > 0 the obstacle
\* given to the smoother is chi^j - P(mR(chi^j)) when up = 0 and exactly
\* half of it when up > 0, the same vector for the down and the up sweeps of
\* a call; on level 0 it is chi^0; and hierarchy[j].chi of the caller's level
\* is not changed by computing it.
C18_LocalObstacle ==
    /\ cd.status \in {"running", "returned"} => hierarchy[cd.j].chi = cd.chi0
    /\ \A j \in {sweeps[i][1] : i \in DOMAIN sweeps} :
          LET d == Delegated(j)
              given == IF j = 0 THEN hierarchy[0].chi
                       ELSE IF cd.up > 0 THEN [p \in DOMAIN d |-> DHalf(d[p])]
                       ELSE d
              on == {i \in DOMAIN sweeps : sweeps[i][1] = j}
              one == sweeps[CHOOSE i \in on : TRUE][5]
          IN  /\ one = given
              /\ \A i \in on : sweeps[i][5] = one

\* C18 witness: on the finest level a down sweep and an up sweep have been
\* given the same halved obstacle, which is not zero.
C18_Witness ==
    /\ cd.up > 0
    /\ cd.j = MaxCD
    /\ \E a, b \in DOMAIN sweeps :
          /\ sweeps[a][1] = MaxCD /\ sweeps[a][2] = "down"
          /\ sweeps[b][1] = MaxCD /\ sweeps[b][2] = "up"
          /\ sweeps[a][5] = sweeps[b][5]
          /\ sweeps[a][5] # zeros_1D(MaxCD)
          /\ sweeps[a][5] # Delegated(MaxCD)

\* the driver is inside a stage: the iterate and the obstacle of its level exist
InStage == drv.pc \in {"loop", "cycle", "stagedone", "next", "done"} /\ drv.stage >= 0

CeilTable(n) == CASE n = 0 -> 1 [] n = 1 -> 2 [] n = 2 -> 3 [] n = 3 -> 4 [] OTHER -> CeilPow(n)

\* the cap on the cycles of the stage: cyclemax on the finest level or
\* without nested iteration, the count derived from nicycles below it
CycleCap ==
    IF (drv.ni \/ drv.nicascadic) /\ drv.stage # drv.levels - 1
    THEN IF drv.nicascadic THEN drv.nicycles * CeilTable(drv.levels - 1 - drv.stage)
         ELSE drv.nicycles
    ELSE drv.cyclemax

\* the stage is in its inner loop
InLoop == drv.pc \in {"loop", "cycle", "stagedone"} /\ drv.stage >= 0

\* at most iters cycles, and one evaluation of the monitor before each cycle
CappedAndMonitored ==
    /\ InLoop => drv.iters = CycleCap /\ drv.s <= drv.iters
    /\ InLoop /\ drv.pc = "loop" => drv.monitored = drv.s
    /\ InLoop /\ drv.pc = "cycle" => drv.monitored = drv.s + 1 /\ drv.s < drv.iters
    /\ InLoop /\ drv.pc = "stagedone" => drv.monitored \in {drv.s, drv.s + 1}

\* a cycle is about to run although the norm before the first cycle was 0
RunsFromZero == InLoop /\ drv.pc = "cycle" /\ drv.first = 0

\* cycle s > 0 is about to run although irnorm <= irtol * irnorm0
RunsBelowTol ==
    /\ InLoop
    /\ drv.pc = "cycle"
    /\ drv.s > 0
    /\ DLeq(D(drv.irnorm), DMul(drv.irtol, D(drv.first)))

\* the stage stops on the numerical error: -errtol is given, the exact
\* solution is available, and the stage is the finest level
ErrorStops == drv.errtol # None /\ drv.exact /\ drv.stage = drv.levels - 1

\* C20 as stated: the inner loop of every level runs at most iters cycles,
\* the monitor is evaluated once before each cycle, no cycle runs when the
\* initial inactive-residual norm is 0, and the loop stops before cycle s > 0
\* as soon as irnorm <= irtol * irnorm0 -- on every level and for every
\* command line.
C20_StopsOnResidual ==
    /\ CappedAndMonitored
    /\ ~RunsFromZero
    /\ ~RunsBelowTol

\* C20 amended: the cap and the single evaluation of the monitor hold always;
\* the two residual tests hold on every stage that does not stop on the
\* numerical error; a stage that does runs a cycle exactly when the error
\* norm is not below errtol, whatever the residual norm.
C20_StopsAtBoundaries ==
    /\ CappedAndMonitored
    /\ ~ErrorStops => ~RunsFromZero /\ ~RunsBelowTol
    /\ ErrorStops /\ InLoop /\ drv.pc = "cycle" => ~(drv.errnorm < drv.errtol)
    /\ ErrorStops /\ InLoop /\ drv.pc = "stagedone" /\ drv.monitored = drv.s + 1
          => drv.errnorm < drv.errtol

\* C20 witness: a loop was stopped before its cycle s > 0, with cycles to
\* spare, by a positive residual norm that had fallen to irtol * irnorm0.
C20_Witness ==
    /\ drv.pc = "stagedone"
    /\ ~ErrorStops
    /\ drv.s > 0
    /\ drv.s < drv.iters
    /\ drv.monitored = drv.s + 1
    /\ drv.irnorm > 0
    /\ DLeq(D(drv.irnorm), DMul(drv.irtol, D(drv.first)))

---------------------------------------------------------------------------
(* Work units of the obstacle driver *)

\* a stage of the nested iteration has just finished
StageOver == drv.pc \in {"next", "done"} /\ drv.stage >= 0

\* sum over the levels 0..j of c[j] / 2^(levels-1-j)
RECURSIVE Shares(_, _)
Shares(c, j) ==
    IF j < 0 THEN DZero
    ELSE DAdd(DNorm(c[j], drv.levels - 1 - j), Shares(c, j - 1))

\* the sweeps run on each level since the stage began
SweptInStage == [j \in DOMAIN drv.swept |-> drv.swept[j] - drv.swept0[j]]

\* the work units waiting in the counters of the levels
Waiting == [j \in DOMAIN drv.hierarchy |-> drv.hierarchy[j].WU]

\* C21: the work-unit counters are counted once.  After each stage ni of the
\* driver hierarchy[j].WU is 0 for every j <= ni, and wusum has grown by
\* exactly the sum over j <= ni of the sweeps done on level j during the
\* stage divided by 2^(levels-1-j); at every moment of the run every sweep
\* done so far is either in wusum or waiting in the counter of its level,
\* never both, so at the end wusum holds each sweep exactly once.
C21_CountedOnce ==
    /\ StageOver => \A j \in 0..drv.stage : drv.hierarchy[j].WU = 0
    /\ StageOver => drv.wusum = DAdd(drv.wusum0, Shares(SweptInStage, drv.stage))
    /\ (drv.pc \notin {"idle", "args", "AssertionError"}) =>
          DAdd(drv.wusum, Shares(Waiting, drv.levels - 1))
             = Shares(drv.swept, drv.levels - 1)
    /\ drv.pc = "done" => drv.wusum = Shares(drv.swept, drv.levels - 1)

\* C21 witness: a nested iteration over all levels with V-cycles with up
\* sweeps has ended, sweeps were run on the coarsest level in its own
\* stage and again in a later one, and wusum is not a whole number.
C21_Witness ==
    /\ drv.pc = "done"
    /\ drv.ni
    /\ ~drv.pgsonly
    /\ drv.up > 0
    /\ drv.levels = MaxNI + 1
    /\ drv.swept0[0] > 0
    /\ drv.swept[0] > drv.swept0[0]
    /\ drv.wusum[2] > 0

---------------------------------------------------------------------------
(* Leftover defect obstacles *)

\* what an earlier cycle may have left as chi on a level below the caller's
Leftover(i) == [p \in 0..(m_1D(i) + 1) |-> D(1)]

\* the obstacle of level L that follows from the defect obstacle chiL of
\* that level alone
FromAbove(L, chiL) ==
    IF L = 0 THEN chiL
    ELSE LET Pc == mesh_P(L, mR(L, chiL).val)
         IN  [p \in DOMAIN chiL |->
                IF cd.up > 0 THEN DHalf(DSub(chiL[p], Pc[p])) ELSE DSub(chiL[p], Pc[p])]

\* the frame of level L, if the call has got there, has read chiL as its
\* defect obstacle and has computed its obstacle from it, and so have the
\* frames below it from the monotone restrictions of chiL
RECURSIVE ReadsFrom(_, _)
ReadsFrom(L, chiL) ==
    LET i == cd.j - L + 1
    IN  (i \in DOMAIN frames /\ frames[i].pc # "enter") =>
           /\ hierarchy[L].chi = chiL
           /\ frames[i].phi = FromAbove(L, chiL)
           /\ L > 0 => /\ hierarchy[L - 1].chi = mR(L, chiL).val
                       /\ ReadsFrom(L - 1, hierarchy[L - 1].chi)

\* C22: no stale defect obstacle is read.  In every vcycle(j, hierarchy, F)
\* the chi of each level i < j is overwritten with mR of the chi of level
\* i + 1 before the frame of level i reads it, so every obstacle the call
\* computes follows from the caller's hierarchy[j].chi alone, whatever was
\* left on the levels below; the correction and the count returned are
\* computed from these obstacles, F and the sweeps only; and
\* hierarchy[j].chi is as the caller gave it when the call returns.
C22_NoStaleRead ==
    /\ cd.status = "running" => ReadsFrom(cd.j, cd.chi0)
    /\ cd.status = "returned" =>
          /\ hierarchy[cd.j].chi = cd.chi0
          /\ \A i \in 0..(cd.j - 1) :
                hierarchy[i].chi = mR(i + 1, hierarchy[i + 1].chi).val

\* C22 witness: the call from the finest level has swept that level under
\* an obstacle that is not zero and is about to recurse, while the chi an
\* earlier cycle left on level 0 is still there, unread.
C22_Witness ==
    /\ cd.status = "running"
    /\ cd.j = MaxCD
    /\ Len(frames) = 1
    /\ frames[1].pc = "down"
    /\ frames[1].q > 0
    /\ frames[1].phi # zeros_1D(MaxCD)
    /\ hierarchy[0].chi = Leftover(0)
    /\ hierarchy[MaxCD - 1].chi # Leftover(MaxCD - 1)

=============================================================================
